---- MODULE Spec2Model ----
(***************************************************************************)
(* lever-js: the createEndpoint request executor.                          *)
(*                                                                         *)
(* Three builds of the executor are modelled side by side:                 *)
(*   "ts"   src/src/index.ts     (the TypeScript source)                   *)
(*   "dist" src/dist/index.js    (compiled build)                          *)
(*   "esm"  src/unnamed/part_002 (second compiled build)                   *)
(*                                                                         *)
(* A JavaScript string is a sequence of one-character strings; the         *)
(* characters outside ASCII are the atoms "U+00E9", "U+20AC" and the lone  *)
(* surrogate "U+D800"; the grave accent is the atom "U+0060".  A           *)
(* JavaScript value is a record tagged by t.                               *)
(***************************************************************************)
EXTENDS Integers, Sequences, FiniteSets, TLC

(***************************************************************************)
(* Characters and their code points                                        *)
(***************************************************************************)
AsciiChars ==
   << " ","!","\"","#","$","%","&","'","(",")","*","+",",","-",".","/",
      "0","1","2","3","4","5","6","7","8","9",":",";","<","=",">","?",
      "@","A","B","C","D","E","F","G","H","I","J","K","L","M","N","O",
      "P","Q","R","S","T","U","V","W","X","Y","Z","[","\\","]","^","_",
      "U+0060","a","b","c","d","e","f","g","h","i","j","k","l","m","n","o",
      "p","q","r","s","t","u","v","w","x","y","z","{","|","}","~" >>

\* the code of each printable ASCII character
AsciiCode ==
   [c \in { AsciiChars[i] : i \in 1..Len(AsciiChars) } |->
       31 + (CHOOSE i \in 1..Len(AsciiChars) : AsciiChars[i] = c)]

HexDigits ==
   << "0","1","2","3","4","5","6","7","8","9","A","B","C","D","E","F" >>

LowerHexDigits ==
   << "0","1","2","3","4","5","6","7","8","9","a","b","c","d","e","f" >>

HexDigitSet ==
   { HexDigits[i] : i \in 1..16 } \cup { LowerHexDigits[i] : i \in 1..16 }

\* the value of a hexadecimal digit of either case
HexDigitValue(h) ==
   IF \E i \in 1..16 : HexDigits[i] = h
   THEN (CHOOSE i \in 1..16 : HexDigits[i] = h) - 1
   ELSE (CHOOSE i \in 1..16 : LowerHexDigits[i] = h) - 1

\* the UTF-16 code unit of a character: a printable ASCII character stands
\* for itself, "\t" "\n" "\r" for U+0009 U+000A U+000D, and every other code
\* unit is written "U+XXXX" with four upper-case hexadecimal digits
Code(c) ==
   IF c = "\t" THEN 9
   ELSE IF c = "\n" THEN 10
   ELSE IF c = "\r" THEN 13
   ELSE IF Len(c) = 1 THEN AsciiCode[c]
   ELSE IF c = "U+0060" THEN 96
   ELSE HexDigitValue(SubSeq(c, 3, 3)) * 4096 + HexDigitValue(SubSeq(c, 4, 4)) * 256
        + HexDigitValue(SubSeq(c, 5, 5)) * 16 + HexDigitValue(SubSeq(c, 6, 6))

\* the character of a code unit
CharOf(n) ==
   IF n = 9 THEN "\t"
   ELSE IF n = 10 THEN "\n"
   ELSE IF n = 13 THEN "\r"
   ELSE IF n >= 32 /\ n <= 126 THEN AsciiChars[n - 31]
   ELSE "U+" \o HexDigits[(n \div 4096) + 1] \o HexDigits[((n \div 256) % 16) + 1]
             \o HexDigits[((n \div 16) % 16) + 1] \o HexDigits[(n % 16) + 1]

IsSurrogate(c) == Code(c) >= 55296 /\ Code(c) <= 57343

IsHighSurrogate(c) == Code(c) >= 55296 /\ Code(c) <= 56319

IsLowSurrogate(c) == Code(c) >= 56320 /\ Code(c) <= 57343

\* a string starts with a surrogate pair
IsPairAt(s) == Len(s) >= 2 /\ IsHighSurrogate(s[1]) /\ IsLowSurrogate(s[2])

\* the code point of a surrogate pair
PairCodePoint(hi, lo) == 65536 + (Code(hi) - 55296) * 1024 + (Code(lo) - 56320)

IsAlnum(c) ==
   \/ (Code(c) >= 48 /\ Code(c) <= 57)
   \/ (Code(c) >= 65 /\ Code(c) <= 90)
   \/ (Code(c) >= 97 /\ Code(c) <= 122)

PercentByte(b) == << "%", HexDigits[(b \div 16) + 1], HexDigits[(b % 16) + 1] >>

\* UTF-8 bytes of one code point
Utf8(cp) ==
   IF cp < 128 THEN << cp >>
   ELSE IF cp < 2048 THEN << 192 + (cp \div 64), 128 + (cp % 64) >>
   ELSE IF cp < 65536
        THEN << 224 + (cp \div 4096), 128 + ((cp \div 64) % 64), 128 + (cp % 64) >>
        ELSE << 240 + (cp \div 262144), 128 + ((cp \div 4096) % 64),
                128 + ((cp \div 64) % 64), 128 + (cp % 64) >>

RECURSIVE PercentBytes(_)
PercentBytes(bs) ==
   IF bs = << >> THEN << >>
   ELSE PercentByte(Head(bs)) \o PercentBytes(Tail(bs))

RECURSIVE Join(_, _)
\* Array.prototype.join
Join(ss, sep) ==
   IF ss = << >> THEN << >>
   ELSE IF Len(ss) = 1 THEN ss[1]
   ELSE ss[1] \o sep \o Join(Tail(ss), sep)

RECURSIVE IndexFrom(_, _, _)
\* position of the first occurrence of pat in s at or after i, 0 when there is none
IndexFrom(s, pat, i) ==
   IF i + Len(pat) - 1 > Len(s) THEN 0
   ELSE IF SubSeq(s, i, i + Len(pat) - 1) = pat THEN i
   ELSE IndexFrom(s, pat, i + 1)

\* String.prototype.indexOf, counted from 1: 0 when there is no occurrence
IndexOf(s, pat) == IndexFrom(s, pat, 1)

Contains(s, pat) == IndexOf(s, pat) # 0

(***************************************************************************)
(* encodeURIComponent                                                      *)
(***************************************************************************)
UriUnreservedMarks == { "-", "_", ".", "!", "~", "*", "'", "(", ")" }

RECURSIVE HasLoneSurrogate(_)
\* a surrogate that is not half of a high-low pair
HasLoneSurrogate(s) ==
   IF s = << >> THEN FALSE
   ELSE IF IsPairAt(s) THEN HasLoneSurrogate(SubSeq(s, 3, Len(s)))
   ELSE IsSurrogate(Head(s)) \/ HasLoneSurrogate(Tail(s))

\* encodeURIComponent throws a URIError on a lone surrogate
ThrowsURIError(s) == HasLoneSurrogate(s)

encodeURIComponentChar(c) ==
   IF IsAlnum(c) \/ c \in UriUnreservedMarks THEN << c >>
   ELSE PercentBytes(Utf8(Code(c)))

RECURSIVE encodeURIComponent(_)
encodeURIComponent(s) ==
   IF s = << >> THEN << >>
   ELSE IF IsPairAt(s)
        THEN PercentBytes(Utf8(PairCodePoint(s[1], s[2])))
             \o encodeURIComponent(SubSeq(s, 3, Len(s)))
   ELSE encodeURIComponentChar(Head(s)) \o encodeURIComponent(Tail(s))

(***************************************************************************)
(* String.prototype.replace with a string pattern                          *)
(***************************************************************************)
RECURSIVE GetSubstitution(_, _, _, _)
\* expands the $ patterns of a replacement string (no capture groups)
GetSubstitution(matched, before, after, repl) ==
   IF repl = << >> THEN << >>
   ELSE IF Head(repl) = "$" /\ Len(repl) >= 2 /\ repl[2] \in { "$", "&", "U+0060", "'" }
        THEN (CASE repl[2] = "$" -> << "$" >>
                [] repl[2] = "&" -> matched
                [] repl[2] = "U+0060" -> before
                [] OTHER         -> after)
             \o GetSubstitution(matched, before, after, SubSeq(repl, 3, Len(repl)))
        ELSE << Head(repl) >> \o GetSubstitution(matched, before, after, Tail(repl))

\* s.replace(pat, repl): only the first occurrence is replaced
Replace(s, pat, repl) ==
   LET p == IndexOf(s, pat)
   IN  IF p = 0 THEN s
       ELSE LET before == SubSeq(s, 1, p - 1)
                after  == SubSeq(s, p + Len(pat), Len(s))
            IN  before \o GetSubstitution(pat, before, after, repl) \o after

(***************************************************************************)
(* JavaScript values                                                       *)
(***************************************************************************)
Undefined == [t |-> "undefined"]
Null      == [t |-> "null"]
Str(s)    == [t |-> "str", s |-> s]
\* a number that is an integer of -2147483647 .. 2147483647
Num(n)    == [t |-> "num", n |-> n]
\* any other number, a double.  A "finite" one is written by its shortest
\* text, the decimal 0.d1..dk * 10^(k + exp) whose digits d1..dk have no zero
\* at either end; "zero" is -0 and "infinity" is Infinity or -Infinity
Dec(kind, neg, digits, exp) ==
   [t |-> "num", kind |-> kind, neg |-> neg, digits |-> digits, exp |-> exp]
NegativeZero  == Dec("zero", TRUE, << >>, 0)
Infinity(neg) == Dec("infinity", neg, << >>, 0)
Bool(b)   == [t |-> "bool", b |-> b]
\* an array of values
Arr(e)    == [t |-> "arr", e |-> e]
\* a plain object: its own enumerable properties as << key, value >> pairs,
\* in property order
Obj(e)    == [t |-> "obj", e |-> e]

\* v != null  (loose inequality: false for null and for undefined)
NotNullish(v) == v.t \notin { "null", "undefined" }

RECURSIVE NatToString(_)
NatToString(n) ==
   IF n < 10 THEN << HexDigits[n + 1] >>
   ELSE NatToString(n \div 10) \o << HexDigits[(n % 10) + 1] >>

\* Number::toString of an integer
NumberToString(n) == IF n < 0 THEN << "-" >> \o NatToString(0 - n) ELSE NatToString(n)

Zeros(n) == [i \in 1..n |-> "0"]

\* a < b for two digit strings of one length
DigitsBelow(a, b) ==
   \E i \in 1..Len(a) : /\ Code(a[i]) < Code(b[i])
                        /\ \A j \in 1..(i - 1) : a[j] = b[j]

StripLeadingZeros(ds) ==
   IF \A i \in 1..Len(ds) : ds[i] = "0" THEN << >>
   ELSE SubSeq(ds, CHOOSE i \in 1..Len(ds) : ds[i] # "0" /\ \A j \in 1..(i - 1) : ds[j] = "0",
               Len(ds))

RECURSIVE DigitsToNat(_)
\* the value of a digit string of at most 2147483647
DigitsToNat(ds) ==
   IF ds = << >> THEN 0
   ELSE DigitsToNat(SubSeq(ds, 1, Len(ds) - 1)) * 10 + (Code(ds[Len(ds)]) - 48)

MaxInt == << "2","1","4","7","4","8","3","6","4","7" >>

\* the number of the decimal 0.d1..dk * 10^(k + exp), which is its double's
\* shortest text
MakeNumber(neg, digits, exp) ==
   LET n     == Len(digits) + exp
       whole == digits \o Zeros(exp)
   IN  IF exp >= 0 /\ n <= 10 /\ (n < 10 \/ whole = MaxInt \/ DigitsBelow(whole, MaxInt))
       THEN Num(IF neg THEN 0 - DigitsToNat(whole) ELSE DigitsToNat(whole))
       ELSE Dec("finite", neg, digits, exp)

(***************************************************************************)
(* Natural numbers of any size, for the rounding of a decimal to a double: *)
(* limbs of three decimal digits, the least significant first, with no     *)
(* zero limb at the top; zero is << >>                                     *)
(***************************************************************************)
Limb == 1000

Max(a, b) == IF a >= b THEN a ELSE b

Min(a, b) == IF a <= b THEN a ELSE b

\* the place of the last element that is not c, 0 when every element is c
LastNot(s, c) ==
   IF \A i \in 1..Len(s) : s[i] = c THEN 0
   ELSE CHOOSE i \in 1..Len(s) : s[i] # c /\ \A j \in (i + 1)..Len(s) : s[j] = c

BigTrim(a) == SubSeq(a, 1, LastNot(a, 0))

RECURSIVE Normalize(_)
\* the limbs of the natural number sum of x[i] * Limb^(i-1): what a place
\* holds beyond its limb, or lacks, is carried to the next place
Normalize(x) ==
   IF \A i \in 1..Len(x) : x[i] >= 0 /\ x[i] < Limb THEN BigTrim(x)
   ELSE Normalize([i \in 1..(Len(x) + 1) |->
                     (IF i <= Len(x) THEN x[i] % Limb ELSE 0)
                     + (IF i > 1 THEN x[i - 1] \div Limb ELSE 0)])

BigPlus(a, b) ==
   Normalize([i \in 1..Max(Len(a), Len(b)) |->
                (IF i <= Len(a) THEN a[i] ELSE 0) + (IF i <= Len(b) THEN b[i] ELSE 0)])

\* a - b, for a >= b
BigSub(a, b) ==
   Normalize([i \in 1..Len(a) |-> a[i] - (IF i <= Len(b) THEN b[i] ELSE 0)])

RECURSIVE ColumnSum(_, _, _, _, _)
\* the sum of a[i] * b[k + 1 - i] for i in lo..hi
ColumnSum(a, b, k, lo, hi) ==
   IF lo > hi THEN 0
   ELSE IF lo = hi THEN a[lo] * b[k + 1 - lo]
   ELSE ColumnSum(a, b, k, lo, (lo + hi) \div 2)
        + ColumnSum(a, b, k, ((lo + hi) \div 2) + 1, hi)

\* a * b
BigTimes(a, b) ==
   IF a = << >> \/ b = << >> THEN << >>
   ELSE Normalize([k \in 1..(Len(a) + Len(b) - 1) |->
                     ColumnSum(a, b, k, Max(1, k + 1 - Len(b)), Min(k, Len(a)))])

BigLess(a, b) ==
   \/ Len(a) < Len(b)
   \/ /\ Len(a) = Len(b)
      /\ \E i \in 1..Len(a) : /\ a[i] < b[i]
                              /\ \A j \in (i + 1)..Len(a) : a[j] = b[j]

BigSquare(a) == BigTimes(a, a)

RECURSIVE BigPower(_, _)
\* b^e, for 0 < b < Limb
BigPower(b, e) ==
   IF e = 0 THEN << 1 >>
   ELSE IF e % 2 = 0 THEN BigSquare(BigPower(b, e \div 2))
   ELSE BigTimes(BigPower(b, e - 1), << b >>)

\* a * 10^e
BigPow10(a, e) ==
   IF a = << >> THEN << >>
   ELSE [i \in 1..(e \div 3) |-> 0] \o BigTimes(a, << 10^(e % 3) >>)

\* the natural number of a digit string
BigOfDigits(ds) ==
   LET len == Len(ds)
   IN  BigTrim([i \in 1..((len + 2) \div 3) |->
                  DigitsToNat(SubSeq(ds, Max(1, len - 3 * i + 1), len - 3 * i + 3))])

RECURSIVE NatDigits(_)
\* the decimal digits of a natural number, as numbers
NatDigits(n) == IF n < 10 THEN << n >> ELSE NatDigits(n \div 10) \o << n % 10 >>

\* the decimal digits of a positive natural number of any size, as numbers,
\* the most significant first
BigDigits(a) ==
   NatDigits(Head(SubSeq(a, Len(a), Len(a))))
   \o [i \in 1..(3 * (Len(a) - 1)) |->
         (a[Len(a) - 1 - ((i - 1) \div 3)] \div 10^(2 - ((i - 1) % 3))) % 10]

\* a < b, for two strings of digits read as natural numbers
NumLess(a, b) ==
   LET n == Max(Len(a), Len(b))
       x == [i \in 1..n |-> IF i <= n - Len(a) THEN 0 ELSE a[i - (n - Len(a))]]
       y == [i \in 1..n |-> IF i <= n - Len(b) THEN 0 ELSE b[i - (n - Len(b))]]
   IN  \E i \in 1..n : x[i] < y[i] /\ \A j \in 1..(i - 1) : x[j] = y[j]

\* 2^52 and 2^53
Two52 == << 496, 370, 627, 599, 503, 4 >>

Two53 == << 992, 740, 254, 199, 7, 9 >>

\* the digit c for which x is in (tens + c) * unit .. (tens + c + 1) * unit
QuotientDigit(x, unit, tens) ==
   CHOOSE c \in 0..9 :
      /\ BigLess(x, BigTimes(BigPlus(tens, << c + 1 >>), unit))
      /\ ~BigLess(x, BigTimes(BigPlus(tens, << c >>), unit))

\* the quotient of x by unit, for tens the ten times of its quotient by
\* 10 * unit
QuotientBy(x, unit, tens) == BigPlus(tens, << QuotientDigit(x, unit, tens) >>)

\* the quotient q and one more digit: the quotient of x by y * 10^pos, for a
\* q that is the quotient of x by y * 10^(pos + 1)
NextQuotient(x, y, pos, q) == QuotientBy(x, BigPow10(y, pos), BigTimes(q, << 10 >>))

RECURSIVE BigDivide(_, _, _, _)
\* the quotient of x by y, below 10^(pos + 1), from the quotient q of x by
\* y * 10^(pos + 1)
BigDivide(x, y, pos, q) ==
   IF pos < 0 THEN q
   ELSE LET next == NextQuotient(x, y, pos, q)
        IN  IF next = << >> THEN BigDivide(x, y, pos - 1, << >>)
            ELSE BigDivide(x, y, pos - 1, next)

\* x / y is the decimal ds * 10^p over 2^e
Scaled(ds, p, e) ==
   LET a == BigOfDigits(ds)
   IN  [x |-> BigTimes(IF p >= 0 THEN BigPow10(a, p) ELSE a,
                       IF e < 0 THEN BigPower(2, 0 - e) ELSE << 1 >>),
        y |-> BigTimes(IF p >= 0 THEN << 1 >> ELSE BigPow10(<< 1 >>, 0 - p),
                       IF e > 0 THEN BigPower(2, e) ELSE << 1 >>),
        e |-> e]

\* t.x / t.y is below 2^53, and from 2^52 on unless its exponent is the least
\* one of a double
InBinade(t) ==
   /\ BigLess(t.x, BigTimes(t.y, Two53))
   /\ t.e = 0 - 1074 \/ ~BigLess(t.x, BigTimes(t.y, Two52))

\* the exponents to look for the binade of a decimal in 10^(n-1) .. 10^n,
\* which is in 2^lo .. 2^hi
BinadeRange(n) ==
   LET lo == (((n - 1) * 33219) \div 10000) - 1
       hi == ((n * 33220) \div 10000) + 1
   IN  Max(lo - 52, 0 - 1074)..Max(hi - 52, 0 - 1074)

\* a double of mantissa m, up to 2^53, and exponent e
Double(m, e) == IF m = Two53 THEN [m |-> Two52, e |-> e + 1] ELSE [m |-> m, e |-> e]

\* the quotient q of x / y with the remainder r, rounded to the nearest, ties
\* to the even one
RoundedBy(y, e, q, r) ==
   Double(IF BigLess(y, BigPlus(r, r)) \/ (BigPlus(r, r) = y /\ q # << >> /\ q[1] % 2 = 1)
          THEN BigPlus(q, << 1 >>) ELSE q,
          e)

\* the quotient q of s.x / s.y, rounded
Rounded(s, q) == RoundedBy(s.y, s.e, q, BigSub(s.x, BigTimes(q, s.y)))

\* s.x / s.y, a number below 2^53, rounded
RoundedQuotient(s) == Rounded(s, BigDivide(s.x, s.y, 15, << >>))

\* the double nearest to the decimal ds * 10^p, ties to the even one, for a
\* digit string ds of a positive number with no zero at its head: its value
\* is m * 2^e with m < 2^53 and e >= -1074, m = 0 when it rounds to zero,
\* e > 971 when it is beyond every double
DoubleOf(ds, p) ==
   RoundedQuotient(Scaled(ds, p, CHOOSE c \in BinadeRange(Len(ds) + p) :
                                    InBinade(Scaled(ds, p, c))))

\* 10^Len(r) - r, for digits r that are not all zero
Complement(r) ==
   LET t == LastNot(r, 0)
   IN  [i \in 1..Len(r) |-> IF i < t THEN 9 - r[i] ELSE IF i = t THEN 10 - r[i] ELSE 0]

\* s + 1, for digits s: one digit longer when every digit is 9
Increment(s) ==
   LET t == LastNot(s, 9)
   IN  IF t = 0 THEN << 1 >> \o [i \in 1..Len(s) |-> 0]
       ELSE [i \in 1..Len(s) |-> IF i < t THEN s[i] ELSE IF i = t THEN s[i] + 1 ELSE 0]

\* the first k digits of v, or these plus one: whichever is within lo below
\* or hi above v, r being the digits of v after the first k and d their
\* complement; both within, the nearer to v, the even one at the same
\* distance; neither within, << >>
ShortestAt(v, k, r, d, floorOk, ceilOk) ==
   IF floorOk /\ ceilOk
   THEN IF NumLess(r, d) \/ (~NumLess(d, r) /\ v[k] % 2 = 0)
        THEN SubSeq(v, 1, k) ELSE Increment(SubSeq(v, 1, k))
   ELSE IF floorOk THEN SubSeq(v, 1, k)
   ELSE IF ceilOk THEN Increment(SubSeq(v, 1, k))
   ELSE << >>

\* ShortestAt for the digits r of v after the first k: the bounds are
\* included when the double is even
ShortestWith(v, k, r, lo, hi, even) ==
   ShortestAt(v, k, r, Complement(r),
              (\A i \in 1..Len(r) : r[i] = 0)
                 \/ (IF even THEN ~NumLess(lo, r) ELSE NumLess(r, lo)),
              (\E i \in 1..Len(r) : r[i] # 0)
                 /\ (IF even THEN ~NumLess(hi, Complement(r))
                     ELSE NumLess(Complement(r), hi)))

RECURSIVE ShortestFrom(_, _, _, _, _)
\* the shortest decimal of k digits or more that rounds to the double whose
\* exact digits are v
ShortestFrom(v, k, lo, hi, even) ==
   LET s == ShortestWith(v, k, SubSeq(v, k + 1, Len(v)), lo, hi, even)
   IN  IF s = << >> THEN ShortestFrom(v, k + 1, lo, hi, even) ELSE s

\* the digits s of the shortest decimal, of the exact digits v in units of
\* 10^-f, as text: the digits with no zero at the end, and the exponent n of
\* 0.s * 10^n, one more than v's when s went up to the next power of ten
ShortestText(s, v, f) ==
   [digits |-> [i \in 1..Max(1, LastNot(s, 0)) |-> HexDigits[s[i] + 1]],
    n      |-> Len(v) - f
               + (IF Len(s) >= 2 /\ s[1] = 1 /\ (\A i \in 2..Len(s) : s[i] = 0)
                     /\ v[1] = 9 THEN 1 ELSE 0)]

ShortestAmong(v, lo, hi, f, even) == ShortestText(ShortestFrom(v, 1, lo, hi, even), v, f)

\* ShortestDecimal in units of 10^-f: a quarter of the gap to the next double
\* is unit, the double is 4 * m * unit, and the double below a power of two
\* is half as far
ShortestIn(m, e, f, unit) ==
   ShortestAmong(BigDigits(BigTimes(BigTimes(m, << 4 >>), unit)),
                 BigDigits(IF m = Two52 /\ e > 0 - 1074 THEN unit ELSE BigPlus(unit, unit)),
                 BigDigits(BigPlus(unit, unit)),
                 f, m[1] % 2 = 0)

\* Number::toString's digits of the double m * 2^e: the digits s and the
\* exponent n of the shortest decimal 0.s * 10^n that rounds to it
ShortestDecimal(m, e) ==
   ShortestIn(m, e, IF e < 2 THEN 2 - e ELSE 0,
              IF e < 2 THEN BigPower(5, 2 - e) ELSE BigPower(2, e - 2))

\* the number whose shortest text is 0.s * 10^n
NumberOfText(neg, text) == MakeNumber(neg, text.digits, text.n - Len(text.digits))

\* the number of a double
NumberOfDouble(neg, double) ==
   IF double.m = << >> THEN (IF neg THEN NegativeZero ELSE Num(0))
   ELSE IF double.e > 971 THEN Infinity(neg)
   ELSE NumberOfText(neg, ShortestDecimal(double.m, double.e))

\* the Number of the decimal (-1)^neg * 0.d1..dk * 10^n, for digits with no
\* zero at either end
NumberOfDecimal(neg, digits, n) ==
   \* 10^309 and more is beyond every double, less than 10^-324 rounds to zero
   IF n > 309 THEN Infinity(neg)
   ELSE IF n < 0 - 323 THEN (IF neg THEN NegativeZero ELSE Num(0))
   \* a decimal of up to 15 digits among the normal doubles is the shortest
   \* text of its double
   ELSE IF Len(digits) <= 15 /\ n >= 0 - 306 /\ n <= 308
        THEN MakeNumber(neg, digits, n - Len(digits))
   ELSE NumberOfDouble(neg, DoubleOf(digits, n - Len(digits)))

\* the Number of the decimal (-1)^neg * ds * 10^e, ds a digit string
NumberValue(neg, ds, e) ==
   IF LastNot(ds, "0") = 0 THEN (IF neg THEN NegativeZero ELSE Num(0))
   ELSE NumberOfDecimal(neg,
                        StripLeadingZeros(SubSeq(ds, 1, LastNot(ds, "0"))),
                        e + Len(StripLeadingZeros(ds)))

\* the digits of Number::toString for the decimal 0.d1..dk * 10^n
DecimalString(digits, n) ==
   LET k == Len(digits)
   IN  IF k <= n /\ n <= 21 THEN digits \o Zeros(n - k)
       ELSE IF 0 < n /\ n <= 21
            THEN SubSeq(digits, 1, n) \o << "." >> \o SubSeq(digits, n + 1, k)
       ELSE IF 0 - 6 < n /\ n <= 0 THEN << "0", "." >> \o Zeros(0 - n) \o digits
       ELSE LET e  == n - 1
                es == IF e < 0 THEN << "-" >> \o NatToString(0 - e)
                                ELSE << "+" >> \o NatToString(e)
            IN  IF k = 1 THEN digits \o << "e" >> \o es
                ELSE << digits[1], "." >> \o SubSeq(digits, 2, k) \o << "e" >> \o es

\* Number::toString of a number whose text the model holds
NumberString(v) ==
   IF "n" \in DOMAIN v THEN NumberToString(v.n)
   ELSE CASE v.kind = "zero"     -> << "0" >>
          [] v.kind = "infinity" ->
               (IF v.neg THEN << "-" >> ELSE << >>) \o << "I","n","f","i","n","i","t","y" >>
          [] v.kind = "finite"   ->
               (IF v.neg THEN << "-" >> ELSE << >>)
               \o DecimalString(v.digits, Len(v.digits) + v.exp)

\* String(v) of a primitive value
String(v) ==
   CASE v.t = "str"       -> v.s
     [] v.t = "num"       -> NumberString(v)
     [] v.t = "bool"      -> IF v.b THEN << "t","r","u","e" >> ELSE << "f","a","l","s","e" >>
     [] v.t = "null"      -> << "n","u","l","l" >>
     [] v.t = "undefined" -> << "u","n","d","e","f","i","n","e","d" >>

\* Object.entries of a plain object (of null or undefined it throws a TypeError)
ObjectEntries(o) == o.e

(***************************************************************************)
(* URLSearchParams: the application/x-www-form-urlencoded serializer       *)
(***************************************************************************)
FormSafeMarks == { "*", "-", ".", "_" }

\* a USVString conversion turns a lone surrogate into U+FFFD
ToUSV(c) == IF IsSurrogate(c) THEN "U+FFFD" ELSE c

FormEncodeChar(c) ==
   IF c = " " THEN << "+" >>
   ELSE IF IsAlnum(c) \/ c \in FormSafeMarks THEN << c >>
   ELSE PercentBytes(Utf8(Code(ToUSV(c))))

RECURSIVE FormEncode(_)
FormEncode(s) ==
   IF s = << >> THEN << >>
   ELSE IF IsPairAt(s)
        THEN PercentBytes(Utf8(PairCodePoint(s[1], s[2]))) \o FormEncode(SubSeq(s, 3, Len(s)))
   ELSE FormEncodeChar(Head(s)) \o FormEncode(Tail(s))

\* new URLSearchParams(pairs).toString()
URLSearchParamsToString(pairs) ==
   Join([i \in 1..Len(pairs) |->
            FormEncode(pairs[i][1]) \o << "=" >> \o FormEncode(pairs[i][2])],
        << "&" >>)

(***************************************************************************)
(* btoa                                                                    *)
(***************************************************************************)
B64Alphabet ==
   << "A","B","C","D","E","F","G","H","I","J","K","L","M","N","O","P",
      "Q","R","S","T","U","V","W","X","Y","Z","a","b","c","d","e","f",
      "g","h","i","j","k","l","m","n","o","p","q","r","s","t","u","v",
      "w","x","y","z","0","1","2","3","4","5","6","7","8","9","+","/" >>

B64Char(n) == B64Alphabet[n + 1]

\* btoa throws InvalidCharacterError on a character above U+00FF
ThrowsInvalidCharacter(s) == \E i \in 1..Len(s) : Code(s[i]) > 255

RECURSIVE Base64(_)
\* RFC 4648 base64 of a sequence of bytes, with padding
Base64(bs) ==
   IF bs = << >> THEN << >>
   ELSE IF Len(bs) = 1 THEN
      << B64Char(bs[1] \div 4), B64Char((bs[1] % 4) * 16), "=", "=" >>
   ELSE IF Len(bs) = 2 THEN
      << B64Char(bs[1] \div 4), B64Char((bs[1] % 4) * 16 + (bs[2] \div 16)),
         B64Char((bs[2] % 16) * 4), "=" >>
   ELSE
      << B64Char(bs[1] \div 4), B64Char((bs[1] % 4) * 16 + (bs[2] \div 16)),
         B64Char((bs[2] % 16) * 4 + (bs[3] \div 64)), B64Char(bs[3] % 64) >>
      \o Base64(SubSeq(bs, 4, Len(bs)))

\* btoa(s): each character is one byte (Latin-1)
btoa(s) == Base64([i \in 1..Len(s) |-> Code(s[i])])

(***************************************************************************)
(* JSON.stringify                                                          *)
(***************************************************************************)
\* \uXXXX with lower-case hexadecimal digits
UnicodeEscape(n) ==
   << "\\", "u", LowerHexDigits[(n \div 4096) + 1], LowerHexDigits[((n \div 256) % 16) + 1],
      LowerHexDigits[((n \div 16) % 16) + 1], LowerHexDigits[(n % 16) + 1] >>

QuoteJSONChar(c) ==
   IF c = "\"" THEN << "\\", "\"" >>
   ELSE IF c = "\\" THEN << "\\", "\\" >>
   ELSE IF c = "\t" THEN << "\\", "t" >>
   ELSE IF c = "\n" THEN << "\\", "n" >>
   ELSE IF c = "\r" THEN << "\\", "r" >>
   ELSE IF Len(c) = 1 THEN << c >>
   ELSE IF Code(c) = 8 THEN << "\\", "b" >>
   ELSE IF Code(c) = 12 THEN << "\\", "f" >>
   ELSE IF Code(c) < 32 \/ IsSurrogate(c) THEN UnicodeEscape(Code(c))
   ELSE << c >>

RECURSIVE QuoteJSONChars(_)
\* a surrogate pair is written as it is, a lone surrogate as an escape
QuoteJSONChars(s) ==
   IF s = << >> THEN << >>
   ELSE IF IsPairAt(s) THEN << s[1], s[2] >> \o QuoteJSONChars(SubSeq(s, 3, Len(s)))
   ELSE QuoteJSONChar(Head(s)) \o QuoteJSONChars(Tail(s))

QuoteJSONString(s) == << "\"" >> \o QuoteJSONChars(s) \o << "\"" >>

RECURSIVE SerializeJSONProperty(_)
\* the string of a value, or Undefined when the value has no JSON text
SerializeJSONProperty(v) ==
   CASE v.t = "undefined" -> Undefined
     [] v.t = "null"      -> Str(<< "n","u","l","l" >>)
     [] v.t = "bool"      -> Str(String(v))
     [] v.t = "num"       ->
          IF "n" \notin DOMAIN v /\ v.kind = "infinity" THEN Str(<< "n","u","l","l" >>)
          ELSE Str(NumberString(v))
     [] v.t = "str"       -> Str(QuoteJSONString(v.s))
     [] v.t = "arr"       ->
          Str(<< "[" >>
              \o Join([i \in 1..Len(v.e) |->
                         LET x == SerializeJSONProperty(v.e[i])
                         IN  IF x.t = "undefined" THEN << "n","u","l","l" >> ELSE x.s],
                      << "," >>)
              \o << "]" >>)
     [] v.t = "obj"       ->
          LET kept == SelectSeq(v.e, LAMBDA kv : SerializeJSONProperty(kv[2]).t # "undefined")
          IN  Str(<< "{" >>
                  \o Join([i \in 1..Len(kept) |->
                             QuoteJSONString(kept[i][1]) \o << ":" >>
                             \o SerializeJSONProperty(kept[i][2]).s],
                          << "," >>)
                  \o << "}" >>)

\* JSON.stringify(v): a string value, or undefined for undefined
JSONStringify(v) == SerializeJSONProperty(v)

(***************************************************************************)
(* JSON.parse                                                              *)
(***************************************************************************)
JSONWhitespace == { " ", "\t", "\n", "\r" }

Digits == { "0","1","2","3","4","5","6","7","8","9" }

\* a parse step: ok, the value read and the text after it
Parsed(v, rest) == [ok |-> TRUE, v |-> v, rest |-> rest]
ParseFail == [ok |-> FALSE, v |-> Undefined, rest |-> << >>]

StartsWith(s, pre) == Len(s) >= Len(pre) /\ SubSeq(s, 1, Len(pre)) = pre

Drop(s, n) == SubSeq(s, n + 1, Len(s))

RECURSIVE SkipWs(_)
SkipWs(s) == IF s # << >> /\ Head(s) \in JSONWhitespace THEN SkipWs(Tail(s)) ELSE s

\* the number of digits at the head of s
DigitRun(s) ==
   IF \A i \in 1..Len(s) : s[i] \in Digits THEN Len(s)
   ELSE (CHOOSE i \in 1..Len(s) : s[i] \notin Digits /\ \A j \in 1..(i - 1) : s[j] \in Digits) - 1

\* a number: -? (0 | [1-9][0-9]*) (. [0-9]+)? ([eE] [+-]? [0-9]+)?
ParseNumber(s) ==
   LET neg       == s # << >> /\ Head(s) = "-"
       body      == IF neg THEN Tail(s) ELSE s
       intLen    == IF body # << >> /\ Head(body) = "0" THEN 1 ELSE DigitRun(body)
       afterInt  == Drop(body, intLen)
       hasFrac   == afterInt # << >> /\ Head(afterInt) = "."
       fracLen   == IF hasFrac THEN DigitRun(Tail(afterInt)) ELSE 0
       afterFrac == IF hasFrac THEN Drop(afterInt, 1 + fracLen) ELSE afterInt
       hasExp    == afterFrac # << >> /\ Head(afterFrac) \in { "e", "E" }
       signed    == hasExp /\ Len(afterFrac) >= 2 /\ afterFrac[2] \in { "+", "-" }
       expText   == IF hasExp THEN Drop(afterFrac, IF signed THEN 2 ELSE 1) ELSE << >>
       expLen    == DigitRun(expText)
       expDigits == StripLeadingZeros(SubSeq(expText, 1, expLen))
       expAbs    == DigitsToNat(expDigits)
       expNeg    == signed /\ afterFrac[2] = "-"
       exp       == IF expNeg THEN 0 - expAbs ELSE expAbs
       rest      == IF hasExp THEN Drop(expText, expLen) ELSE afterFrac
       mantissa  == SubSeq(body, 1, intLen) \o SubSeq(afterInt, 2, 1 + fracLen)
   IN  IF intLen = 0 THEN ParseFail
       ELSE IF Head(body) = "0" /\ Len(body) >= 2 /\ body[2] \in Digits THEN ParseFail
       ELSE IF hasFrac /\ fracLen = 0 THEN ParseFail
       ELSE IF hasExp /\ expLen = 0 THEN ParseFail
       \* a text is shorter than 10^9 characters: with an exponent of ten
       \* digits or more its number is zero, beyond every double, or below
       \* the least one
       ELSE IF Len(expDigits) > 9
            THEN Parsed(IF StripLeadingZeros(mantissa) # << >> /\ ~expNeg
                        THEN Infinity(neg)
                        ELSE IF neg THEN NegativeZero ELSE Num(0),
                        rest)
       ELSE Parsed(NumberValue(neg, mantissa, exp - fracLen), rest)

RECURSIVE ParseStringChars(_, _)
\* s is the text after the opening quote
ParseStringChars(s, acc) ==
   IF s = << >> THEN ParseFail
   ELSE IF Head(s) = "\"" THEN Parsed(Str(acc), Tail(s))
   ELSE IF Code(Head(s)) < 32 THEN ParseFail
   ELSE IF Head(s) = "\\"
        THEN IF Len(s) < 2 THEN ParseFail
             ELSE IF s[2] \in { "\"", "\\", "/" }
             THEN ParseStringChars(Drop(s, 2), Append(acc, s[2]))
             ELSE IF s[2] \in { "b", "f", "n", "r", "t" }
             THEN ParseStringChars(Drop(s, 2),
                     Append(acc, CASE s[2] = "b" -> CharOf(8) [] s[2] = "f" -> CharOf(12)
                                   [] s[2] = "n" -> "\n" [] s[2] = "r" -> "\r"
                                   [] s[2] = "t" -> "\t"))
             ELSE IF s[2] = "u" /\ Len(s) >= 6 /\ \A i \in 3..6 : s[i] \in HexDigitSet
             THEN ParseStringChars(Drop(s, 6),
                     Append(acc, CharOf(HexDigitValue(s[3]) * 4096 + HexDigitValue(s[4]) * 256
                                        + HexDigitValue(s[5]) * 16 + HexDigitValue(s[6]))))
             ELSE ParseFail
        ELSE ParseStringChars(Tail(s), Append(acc, Head(s)))

\* the largest array index, 2^32 - 2
MaxArrayIndex == <<"4","2","9","4","9","6","7","2","9","4">>

\* a before b, for two canonical numeric strings
IndexLess(a, b) ==
   \/ Len(a) < Len(b)
   \/ /\ Len(a) = Len(b)
      /\ \E i \in 1..Len(a) :
            /\ Code(a[i]) < Code(b[i])
            /\ \A j \in 1..(i - 1) : a[j] = b[j]

\* a property key that is an array index: the canonical text of an integer
\* of 0 .. 2^32 - 2
IsArrayIndex(k) ==
   /\ k # << >>
   /\ \A i \in 1..Len(k) : k[i] \in Digits
   /\ Len(k) = 1 \/ k[1] # "0"
   /\ k = MaxArrayIndex \/ IndexLess(k, MaxArrayIndex)

\* defining a property again keeps its place and takes the new value; a new
\* property whose key is an array index goes among the array indices, which
\* come first in ascending order, and any other new property goes last
DefineProperty(props, k, v) ==
   IF \E i \in 1..Len(props) : props[i][1] = k
   THEN [i \in 1..Len(props) |-> IF props[i][1] = k THEN << k, v >> ELSE props[i]]
   ELSE IF IsArrayIndex(k)
   THEN LET n == Cardinality({ i \in 1..Len(props) :
                                  /\ IsArrayIndex(props[i][1])
                                  /\ IndexLess(props[i][1], k) })
        IN  SubSeq(props, 1, n) \o << << k, v >> >> \o SubSeq(props, n + 1, Len(props))
   ELSE Append(props, << k, v >>)

RECURSIVE ParseValue(_)
RECURSIVE ParseElements(_, _)
RECURSIVE ParseMembers(_, _)

\* s is the text after "[" or after a ","; acc the elements read so far
ParseElements(s, acc) ==
   LET r == ParseValue(s)
   IN  IF ~r.ok THEN ParseFail
       ELSE LET t == SkipWs(r.rest)
            IN  IF t = << >> THEN ParseFail
                ELSE IF Head(t) = "," THEN ParseElements(Tail(t), Append(acc, r.v))
                ELSE IF Head(t) = "]" THEN Parsed(Arr(Append(acc, r.v)), Tail(t))
                ELSE ParseFail

\* s is the text after "{" or after a ","; acc the properties read so far
ParseMembers(s, acc) ==
   LET t == SkipWs(s)
   IN  IF t = << >> \/ Head(t) # "\"" THEN ParseFail
       ELSE LET k == ParseStringChars(Tail(t), << >>)
                u == SkipWs(k.rest)
            IN  IF ~k.ok \/ u = << >> \/ Head(u) # ":" THEN ParseFail
                ELSE LET r == ParseValue(Tail(u))
                         w == SkipWs(r.rest)
                     IN  IF ~r.ok \/ w = << >> THEN ParseFail
                         ELSE IF Head(w) = ","
                              THEN ParseMembers(Tail(w), DefineProperty(acc, k.v.s, r.v))
                         ELSE IF Head(w) = "}"
                              THEN Parsed(Obj(DefineProperty(acc, k.v.s, r.v)), Tail(w))
                         ELSE ParseFail

ParseValue(s0) ==
   LET s == SkipWs(s0)
   IN  IF s = << >> THEN ParseFail
       ELSE IF Head(s) = "{"
            THEN (IF SkipWs(Tail(s)) # << >> /\ Head(SkipWs(Tail(s))) = "}"
                  THEN Parsed(Obj(<< >>), Tail(SkipWs(Tail(s))))
                  ELSE ParseMembers(Tail(s), << >>))
       ELSE IF Head(s) = "["
            THEN (IF SkipWs(Tail(s)) # << >> /\ Head(SkipWs(Tail(s))) = "]"
                  THEN Parsed(Arr(<< >>), Tail(SkipWs(Tail(s))))
                  ELSE ParseElements(Tail(s), << >>))
       ELSE IF Head(s) = "\"" THEN ParseStringChars(Tail(s), << >>)
       ELSE IF StartsWith(s, << "t","r","u","e" >>) THEN Parsed(Bool(TRUE), Drop(s, 4))
       ELSE IF StartsWith(s, << "f","a","l","s","e" >>) THEN Parsed(Bool(FALSE), Drop(s, 5))
       ELSE IF StartsWith(s, << "n","u","l","l" >>) THEN Parsed(Null, Drop(s, 4))
       ELSE ParseNumber(s)

\* the text res.json() reads from a body, the UTF-8 decoding of its bytes: a
\* surrogate that is not half of a pair went out as U+FFFD, and up to two
\* leading byte order marks are dropped (Node's res.json() takes one off the
\* bytes, and the decoder it hands them to takes off one more)
BodyText(body) ==
   LET n    == Len(body)
       lone == { i \in 1..n :
                   \/ /\ IsHighSurrogate(body[i])
                      /\ ~(i < n /\ IsLowSurrogate(body[i + 1]))
                   \/ /\ IsLowSurrogate(body[i])
                      /\ ~(i > 1 /\ IsHighSurrogate(body[i - 1])) }
       text == [i \in 1..n |-> IF i \in lone THEN "U+FFFD" ELSE body[i]]
       marks == IF n >= 2 /\ text[1] = "U+FEFF" /\ text[2] = "U+FEFF" THEN 2
                ELSE IF n >= 1 /\ text[1] = "U+FEFF" THEN 1
                ELSE 0
   IN  SubSeq(text, marks + 1, n)

\* res.json() on a body that arrived whole, JSON.parse of its text: ok and
\* the value, or not ok (a SyntaxError)
JSONParse(body) ==
   LET r == ParseValue(BodyText(body))
   IN  IF r.ok /\ SkipWs(r.rest) = << >> THEN r ELSE ParseFail

(***************************************************************************)
(* Endpoint descriptors                                                    *)
(***************************************************************************)
GET    == << "G","E","T" >>
POST   == << "P","O","S","T" >>
PUT    == << "P","U","T" >>
DELETE == << "D","E","L","E","T","E" >>

\* type HttpMethod
HttpMethod == { GET, POST, PUT, DELETE }

\* the { method, path } literal an endpoint is created from
Config(name, method, path) == [name |-> name, method |-> method, path |-> path]

\* the endpoints declared in src/src/index.ts
EndpointsTs == {
   Config("retrieveApplication", GET,
      <<"/","o","p","p","o","r","t","u","n","i","t","i","e","s","/",":","o","p","p","o","r","t","u","n","i","t","y","/","a","p","p","l","i","c","a","t","i","o","n","s","/",":","a","p","p","l","i","c","a","t","i","o","n">>),
   Config("listApplications", GET,
      <<"/","o","p","p","o","r","t","u","n","i","t","i","e","s","/",":","o","p","p","o","r","t","u","n","i","t","y","/","a","p","p","l","i","c","a","t","i","o","n","s">>),
   Config("applyToPosting", POST,
      <<"/","p","o","s","t","i","n","g","s","/",":","p","o","s","t","i","n","g","/","a","p","p","l","y">>),
   Config("retrieveInterview", GET,
      <<"/","o","p","p","o","r","t","u","n","i","t","i","e","s","/",":","o","p","p","o","r","t","u","n","i","t","y","/","i","n","t","e","r","v","i","e","w","/",":","i","n","t","e","r","v","i","e","w">>),
   Config("listInterviews", GET,
      <<"/","o","p","p","o","r","t","u","n","i","t","i","e","s","/",":","o","p","p","o","r","t","u","n","i","t","y","/","i","n","t","e","r","v","i","e","w","s">>),
   Config("createInterview", POST,
      <<"/","o","p","p","o","r","t","u","n","i","t","i","e","s","/",":","o","p","p","o","r","t","u","n","i","t","y","/","i","n","t","e","r","v","i","e","w","s">>),
   Config("updateInterview", PUT,
      <<"/","o","p","p","o","r","t","u","n","i","t","i","e","s","/",":","o","p","p","o","r","t","u","n","i","t","y","/","i","n","t","e","r","v","i","e","w","s","/",":","i","n","t","e","r","v","i","e","w">>),
   Config("deleteInterview", DELETE,
      <<"/","o","p","p","o","r","t","u","n","i","t","i","e","s","/",":","o","p","p","o","r","t","u","n","i","t","y","/","i","n","t","e","r","v","i","e","w","s","/",":","i","n","t","e","r","v","i","e","w">>),
   Config("retrieveNote", GET,
      <<"/","o","p","p","o","r","t","u","n","i","t","i","e","s","/",":","o","p","p","o","r","t","u","n","i","t","y","/","n","o","t","e","s","/",":","n","o","t","e">>),
   Config("listNotes", GET,
      <<"/","o","p","p","o","r","t","u","n","i","t","i","e","s","/",":","o","p","p","o","r","t","u","n","i","t","y","/","n","o","t","e","s">>),
   Config("createNote", POST,
      <<"/","o","p","p","o","r","t","u","n","i","t","i","e","s","/",":","o","p","p","o","r","t","u","n","i","t","y","/","n","o","t","e","s">>),
   Config("updateNote", PUT,
      <<"/","o","p","p","o","r","t","u","n","i","t","i","e","s","/",":","o","p","p","o","r","t","u","n","i","t","y","/","n","o","t","e","s","/",":","n","o","t","e">>),
   Config("deleteNote", DELETE,
      <<"/","o","p","p","o","r","t","u","n","i","t","i","e","s","/",":","o","p","p","o","r","t","u","n","i","t","y","/","n","o","t","e","s","/",":","n","o","t","e">>),
   Config("retrieveOpportunity", GET,
      <<"/","o","p","p","o","r","t","u","n","i","t","i","e","s","/",":","o","p","p","o","r","t","u","n","i","t","y">>),
   Config("listOpportunities", GET,
      <<"/","o","p","p","o","r","t","u","n","i","t","i","e","s">>),
   Config("listDeletedOpportunities", GET,
      <<"/","o","p","p","o","r","t","u","n","i","t","i","e","s","/","d","e","l","e","t","e","d">>),
   Config("createOpportunity", POST,
      <<"/","o","p","p","o","r","t","u","n","i","t","i","e","s">>),
   Config("updateOpportunityStage", PUT,
      <<"/","o","p","p","o","r","t","u","n","i","t","i","e","s","/",":","o","p","p","o","r","t","u","n","i","t","y","/","s","t","a","g","e">>),
   Config("updateOpportunityArchivedState", PUT,
      <<"/","o","p","p","o","r","t","u","n","i","t","i","e","s","/",":","o","p","p","o","r","t","u","n","i","t","y","/","a","r","c","h","i","v","e","d">>),
   Config("addContactLinksByOpportunity", POST,
      <<"/","o","p","p","o","r","t","u","n","i","t","i","e","s","/",":","o","p","p","o","r","t","u","n","i","t","y","/","a","d","d","L","i","n","k","s">>),
   Config("removeContactLinksByOpportunity", POST,
      <<"/","o","p","p","o","r","t","u","n","i","t","i","e","s","/",":","o","p","p","o","r","t","u","n","i","t","y","/","r","e","m","o","v","e","L","i","n","k","s">>),
   Config("addOpportunityTags", POST,
      <<"/","o","p","p","o","r","t","u","n","i","t","i","e","s","/",":","o","p","p","o","r","t","u","n","i","t","y","/","a","d","d","T","a","g","s">>),
   Config("removeOpportunityTags", POST,
      <<"/","o","p","p","o","r","t","u","n","i","t","i","e","s","/",":","o","p","p","o","r","t","u","n","i","t","y","/","r","e","m","o","v","e","T","a","g","s">>),
   Config("addOpportunitySources", POST,
      <<"/","o","p","p","o","r","t","u","n","i","t","i","e","s","/",":","o","p","p","o","r","t","u","n","i","t","y","/","a","d","d","S","o","u","r","c","e","s">>),
   Config("removeOpportunitySources", POST,
      <<"/","o","p","p","o","r","t","u","n","i","t","i","e","s","/",":","o","p","p","o","r","t","u","n","i","t","y","/","r","e","m","o","v","e","S","o","u","r","c","e","s">>),
   Config("getStage", GET,
      <<"/","s","t","a","g","e","s","/",":","s","t","a","g","e">>),
   Config("getStages", GET,
      <<"/","s","t","a","g","e","s">>),
   Config("getTags", GET,
      <<"/","t","a","g","s">>) }

\* the endpoints declared in src/dist/index.js
EndpointsDist == {
   Config("retrieveApplication", GET,
      <<"/","o","p","p","o","r","t","u","n","i","t","i","e","s","/",":","o","p","p","o","r","t","u","n","i","t","y","/","a","p","p","l","i","c","a","t","i","o","n","s","/",":","a","p","p","l","i","c","a","t","i","o","n">>),
   Config("listApplications", GET,
      <<"/","o","p","p","o","r","t","u","n","i","t","i","e","s","/",":","o","p","p","o","r","t","u","n","i","t","y","/","a","p","p","l","i","c","a","t","i","o","n","s">>),
   Config("applyToPosting", POST,
      <<"/","p","o","s","t","i","n","g","s","/",":","p","o","s","t","i","n","g","/","a","p","p","l","y">>),
   Config("retrieveInterview", GET,
      <<"/","o","p","p","o","r","t","u","n","i","t","i","e","s","/",":","o","p","p","o","r","t","u","n","i","t","y","/","i","n","t","e","r","v","i","e","w","/",":","i","n","t","e","r","v","i","e","w">>),
   Config("listInterviews", GET,
      <<"/","o","p","p","o","r","t","u","n","i","t","i","e","s","/",":","o","p","p","o","r","t","u","n","i","t","y","/","i","n","t","e","r","v","i","e","w","s">>),
   Config("createInterview", POST,
      <<"/","o","p","p","o","r","t","u","n","i","t","i","e","s","/",":","o","p","p","o","r","t","u","n","i","t","y","/","i","n","t","e","r","v","i","e","w","s">>),
   Config("updateInterview", PUT,
      <<"/","o","p","p","o","r","t","u","n","i","t","i","e","s","/",":","o","p","p","o","r","t","u","n","i","t","y","/","i","n","t","e","r","v","i","e","w","s","/",":","i","n","t","e","r","v","i","e","w">>),
   Config("deleteInterview", DELETE,
      <<"/","o","p","p","o","r","t","u","n","i","t","i","e","s","/",":","o","p","p","o","r","t","u","n","i","t","y","/","i","n","t","e","r","v","i","e","w","s","/",":","i","n","t","e","r","v","i","e","w">>),
   Config("retrieveNote", GET,
      <<"/","o","p","p","o","r","t","u","n","i","t","i","e","s","/",":","o","p","p","o","r","t","u","n","i","t","y","/","n","o","t","e","s","/",":","n","o","t","e">>),
   Config("listNotes", GET,
      <<"/","o","p","p","o","r","t","u","n","i","t","i","e","s","/",":","o","p","p","o","r","t","u","n","i","t","y","/","n","o","t","e","s">>),
   Config("createNote", POST,
      <<"/","o","p","p","o","r","t","u","n","i","t","i","e","s","/",":","o","p","p","o","r","t","u","n","i","t","y","/","n","o","t","e","s">>),
   Config("updateNote", PUT,
      <<"/","o","p","p","o","r","t","u","n","i","t","i","e","s","/",":","o","p","p","o","r","t","u","n","i","t","y","/","n","o","t","e","s","/",":","n","o","t","e">>),
   Config("deleteNote", DELETE,
      <<"/","o","p","p","o","r","t","u","n","i","t","i","e","s","/",":","o","p","p","o","r","t","u","n","i","t","y","/","n","o","t","e","s","/",":","n","o","t","e">>),
   Config("retrieveOpportunity", GET,
      <<"/","o","p","p","o","r","t","u","n","i","t","i","e","s","/",":","o","p","p","o","r","t","u","n","i","t","y">>),
   Config("listOpportunities", GET,
      <<"/","o","p","p","o","r","t","u","n","i","t","i","e","s">>),
   Config("listDeletedOpportunities", GET,
      <<"/","o","p","p","o","r","t","u","n","i","t","i","e","s","/","d","e","l","e","t","e","d">>),
   Config("createOpportunity", POST,
      <<"/","o","p","p","o","r","t","u","n","i","t","i","e","s">>),
   Config("updateOpportunityStage", PUT,
      <<"/","o","p","p","o","r","t","u","n","i","t","i","e","s","/",":","o","p","p","o","r","t","u","n","i","t","y","/","s","t","a","g","e">>),
   Config("updateOpportunityArchivedState", PUT,
      <<"/","o","p","p","o","r","t","u","n","i","t","i","e","s","/",":","o","p","p","o","r","t","u","n","i","t","y","/","a","r","c","h","i","v","e","d">>),
   Config("addContactLinksByOpportunity", POST,
      <<"/","o","p","p","o","r","t","u","n","i","t","i","e","s","/",":","o","p","p","o","r","t","u","n","i","t","y","/","a","d","d","L","i","n","k","s">>),
   Config("removeContactLinksByOpportunity", POST,
      <<"/","o","p","p","o","r","t","u","n","i","t","i","e","s","/",":","o","p","p","o","r","t","u","n","i","t","y","/","r","e","m","o","v","e","L","i","n","k","s">>),
   Config("addOpportunityTags", POST,
      <<"/","o","p","p","o","r","t","u","n","i","t","i","e","s","/",":","o","p","p","o","r","t","u","n","i","t","y","/","a","d","d","T","a","g","s">>),
   Config("removeOpportunityTags", POST,
      <<"/","o","p","p","o","r","t","u","n","i","t","i","e","s","/",":","o","p","p","o","r","t","u","n","i","t","y","/","r","e","m","o","v","e","T","a","g","s">>),
   Config("addOpportunitySources", POST,
      <<"/","o","p","p","o","r","t","u","n","i","t","i","e","s","/",":","o","p","p","o","r","t","u","n","i","t","y","/","a","d","d","S","o","u","r","c","e","s">>),
   Config("removeOpportunitySources", POST,
      <<"/","o","p","p","o","r","t","u","n","i","t","i","e","s","/",":","o","p","p","o","r","t","u","n","i","t","y","/","r","e","m","o","v","e","S","o","u","r","c","e","s">>),
   Config("getStage", GET,
      <<"/","s","t","a","g","e","s","/",":","s","t","a","g","e">>),
   Config("getStages", GET,
      <<"/","s","t","a","g","e","s">>),
   Config("getTags", GET,
      <<"/","t","a","g","s">>) }

\* the endpoints declared in src/unnamed/part_002
EndpointsEsm == {
   Config("retrieveApplication", GET,
      <<"/","o","p","p","o","r","t","u","n","i","t","i","e","s","/",":","o","p","p","o","r","t","u","n","i","t","y","/","a","p","p","l","i","c","a","t","i","o","n","s","/",":","a","p","p","l","i","c","a","t","i","o","n">>),
   Config("listApplications", GET,
      <<"/","o","p","p","o","r","t","u","n","i","t","i","e","s","/",":","o","p","p","o","r","t","u","n","i","t","y","/","a","p","p","l","i","c","a","t","i","o","n","s">>),
   Config("applyToPosting", POST,
      <<"/","p","o","s","t","i","n","g","s","/",":","p","o","s","t","i","n","g","/","a","p","p","l","y">>),
   Config("retrievePosting", GET,
      <<"/","p","o","s","t","i","n","g","s","/",":","p","o","s","t","i","n","g">>),
   Config("retrieveInterview", GET,
      <<"/","o","p","p","o","r","t","u","n","i","t","i","e","s","/",":","o","p","p","o","r","t","u","n","i","t","y","/","i","n","t","e","r","v","i","e","w","s","/",":","i","n","t","e","r","v","i","e","w">>),
   Config("listInterviews", GET,
      <<"/","o","p","p","o","r","t","u","n","i","t","i","e","s","/",":","o","p","p","o","r","t","u","n","i","t","y","/","i","n","t","e","r","v","i","e","w","s">>),
   Config("createInterview", POST,
      <<"/","o","p","p","o","r","t","u","n","i","t","i","e","s","/",":","o","p","p","o","r","t","u","n","i","t","y","/","i","n","t","e","r","v","i","e","w","s">>),
   Config("updateInterview", PUT,
      <<"/","o","p","p","o","r","t","u","n","i","t","i","e","s","/",":","o","p","p","o","r","t","u","n","i","t","y","/","i","n","t","e","r","v","i","e","w","s","/",":","i","n","t","e","r","v","i","e","w">>),
   Config("deleteInterview", DELETE,
      <<"/","o","p","p","o","r","t","u","n","i","t","i","e","s","/",":","o","p","p","o","r","t","u","n","i","t","y","/","i","n","t","e","r","v","i","e","w","s","/",":","i","n","t","e","r","v","i","e","w">>),
   Config("retrieveNote", GET,
      <<"/","o","p","p","o","r","t","u","n","i","t","i","e","s","/",":","o","p","p","o","r","t","u","n","i","t","y","/","n","o","t","e","s","/",":","n","o","t","e">>),
   Config("listNotes", GET,
      <<"/","o","p","p","o","r","t","u","n","i","t","i","e","s","/",":","o","p","p","o","r","t","u","n","i","t","y","/","n","o","t","e","s">>),
   Config("createNote", POST,
      <<"/","o","p","p","o","r","t","u","n","i","t","i","e","s","/",":","o","p","p","o","r","t","u","n","i","t","y","/","n","o","t","e","s">>),
   Config("updateNote", PUT,
      <<"/","o","p","p","o","r","t","u","n","i","t","i","e","s","/",":","o","p","p","o","r","t","u","n","i","t","y","/","n","o","t","e","s","/",":","n","o","t","e">>),
   Config("deleteNote", DELETE,
      <<"/","o","p","p","o","r","t","u","n","i","t","i","e","s","/",":","o","p","p","o","r","t","u","n","i","t","y","/","n","o","t","e","s","/",":","n","o","t","e">>),
   Config("retrieveOpportunity", GET,
      <<"/","o","p","p","o","r","t","u","n","i","t","i","e","s","/",":","o","p","p","o","r","t","u","n","i","t","y">>),
   Config("listOpportunities", GET,
      <<"/","o","p","p","o","r","t","u","n","i","t","i","e","s">>),
   Config("listDeletedOpportunities", GET,
      <<"/","o","p","p","o","r","t","u","n","i","t","i","e","s","/","d","e","l","e","t","e","d">>),
   Config("createOpportunity", POST,
      <<"/","o","p","p","o","r","t","u","n","i","t","i","e","s">>),
   Config("updateOpportunityStage", PUT,
      <<"/","o","p","p","o","r","t","u","n","i","t","i","e","s","/",":","o","p","p","o","r","t","u","n","i","t","y","/","s","t","a","g","e">>),
   Config("updateOpportunityArchivedState", PUT,
      <<"/","o","p","p","o","r","t","u","n","i","t","i","e","s","/",":","o","p","p","o","r","t","u","n","i","t","y","/","a","r","c","h","i","v","e","d">>),
   Config("addContactLinksByOpportunity", POST,
      <<"/","o","p","p","o","r","t","u","n","i","t","i","e","s","/",":","o","p","p","o","r","t","u","n","i","t","y","/","a","d","d","L","i","n","k","s">>),
   Config("removeContactLinksByOpportunity", POST,
      <<"/","o","p","p","o","r","t","u","n","i","t","i","e","s","/",":","o","p","p","o","r","t","u","n","i","t","y","/","r","e","m","o","v","e","L","i","n","k","s">>),
   Config("addOpportunityTags", POST,
      <<"/","o","p","p","o","r","t","u","n","i","t","i","e","s","/",":","o","p","p","o","r","t","u","n","i","t","y","/","a","d","d","T","a","g","s">>),
   Config("removeOpportunityTags", POST,
      <<"/","o","p","p","o","r","t","u","n","i","t","i","e","s","/",":","o","p","p","o","r","t","u","n","i","t","y","/","r","e","m","o","v","e","T","a","g","s">>),
   Config("addOpportunitySources", POST,
      <<"/","o","p","p","o","r","t","u","n","i","t","i","e","s","/",":","o","p","p","o","r","t","u","n","i","t","y","/","a","d","d","S","o","u","r","c","e","s">>),
   Config("removeOpportunitySources", POST,
      <<"/","o","p","p","o","r","t","u","n","i","t","i","e","s","/",":","o","p","p","o","r","t","u","n","i","t","y","/","r","e","m","o","v","e","S","o","u","r","c","e","s">>),
   Config("getStage", GET,
      <<"/","s","t","a","g","e","s","/",":","s","t","a","g","e">>),
   Config("getStages", GET,
      <<"/","s","t","a","g","e","s">>),
   Config("getTags", GET,
      <<"/","t","a","g","s">>) }

Endpoints(build) ==
   CASE build = "ts"   -> EndpointsTs
     [] build = "dist" -> EndpointsDist
     [] build = "esm"  -> EndpointsEsm

(***************************************************************************)
(* createEndpoint: the synchronous part of call, up to the await of fetch  *)
(***************************************************************************)
\* const ROOT
ROOT == <<"h","t","t","p","s",":","/","/","a","p","i",".","l","e","v","e","r",".","c","o","/","v","1">>

ApplicationJson == <<"a","p","p","l","i","c","a","t","i","o","n","/","j","s","o","n">>

\* { ...a, ...b }: the keys of both, b's value on a key of both
Spread(a, b) == [k \in (DOMAIN a) \cup (DOMAIN b) |-> IF k \in DOMAIN b THEN b[k] ELSE a[k]]

\* the object literal {}
EmptyObject == << >>

\* a property read: undefined when the object has no such key
Get(o, k) == IF k \in DOMAIN o THEN o[k] ELSE Undefined

\* Object.entries of an object or an array
Entries(v) ==
   IF v.t = "arr" THEN [i \in 1..Len(v.e) |-> << NatToString(i - 1), v.e[i] >>]
   ELSE ObjectEntries(v)

\* the params the loop of step 1 iterates over
ParamsOf(build, data) ==
   IF build = "esm"
   THEN IF "params" \in DOMAIN data THEN data["params"] ELSE Obj(<< >>)
   ELSE Get(data, "params")

\* the query the entries of step 2 are taken from
QueryOf(build, data) ==
   IF build = "esm"
   THEN IF "query" \in DOMAIN data
        THEN (IF NotNullish(data["query"]) THEN data["query"] ELSE Arr(<< >>))
        ELSE Arr(<< >>)
   ELSE Get(data, "query")

RECURSIVE ReplaceEvery(_, _, _)
\* String.prototype.replaceAll with a string pattern and a replacement that
\* has no $ pattern
ReplaceEvery(s, pat, repl) ==
   LET p == IndexOf(s, pat)
   IN  IF p = 0 THEN s
       ELSE SubSeq(s, 1, p - 1) \o repl
               \o ReplaceEvery(SubSeq(s, p + Len(pat), Len(s)), pat, repl)

RECURSIVE InterpolateAll(_, _)
\* Interpolate that replaces every occurrence of the token
InterpolateAll(url, entries) ==
   IF entries = << >> THEN url
   ELSE InterpolateAll(ReplaceEvery(url, << ":" >> \o entries[1][1],
                                    encodeURIComponent(String(entries[1][2]))),
                       Tail(entries))

\* encodeURI: as encodeURIComponent, but the reserved characters and "#"
\* are left as they are
encodeURIChar(c) ==
   IF c \in { ";", "/", "?", ":", "@", "&", "=", "+", "$", ",", "#" } THEN << c >>
   ELSE encodeURIComponentChar(c)

RECURSIVE InterpolateEncodeURI(_, _)
\* Interpolate with encodeURI in place of encodeURIComponent
InterpolateEncodeURI(url, entries) ==
   IF entries = << >> THEN url
   ELSE InterpolateEncodeURI(
           Replace(url, << ":" >> \o entries[1][1],
                   Join([i \in 1..Len(String(entries[1][2])) |->
                            encodeURIChar(String(entries[1][2])[i])], << >>)),
           Tail(entries))

RECURSIVE InterpolateRaw(_, _)
\* Interpolate without encodeURIComponent: the value is substituted as it is
InterpolateRaw(url, entries) ==
   IF entries = << >> THEN url
   ELSE InterpolateRaw(Replace(url, << ":" >> \o entries[1][1], String(entries[1][2])),
                       Tail(entries))

RECURSIVE Interpolate(_, _)
\* step 1: for (const [key, val] of entries) url = url.replace(`:${key}`, encodeURIComponent(val))
Interpolate(url, entries) ==
   IF entries = << >> THEN url
   ELSE Interpolate(Replace(url, << ":" >> \o entries[1][1],
                            encodeURIComponent(String(entries[1][2]))),
                    Tail(entries))

\* ToBoolean of a primitive value
Truthy(v) ==
   CASE v.t = "str"  -> v.s # << >>
     [] v.t = "num"  -> IF "n" \in DOMAIN v THEN v.n # 0 ELSE v.kind # "zero"
     [] v.t = "bool" -> v.b
     [] OTHER        -> FALSE

\* QueryPairs with the filter ([, v]) => v, which also drops 0, false and ''
QueryPairsTruthy(query) ==
   LET kept == SelectSeq(Entries(query), LAMBDA kv : Truthy(kv[2]))
   IN  [i \in 1..Len(kept) |-> << kept[i][1], String(kept[i][2]) >>]

\* step 2: the entries that pass the filter v != null, mapped to [k, String(v)]
QueryPairs(query) ==
   LET kept == SelectSeq(Entries(query), LAMBDA kv : NotNullish(kv[2]))
   IN  [i \in 1..Len(kept) |-> << kept[i][1], String(kept[i][2]) >>]

\* const qs
QueryString(query) == URLSearchParamsToString(QueryPairs(query))

\* FullUrl with the "?" appended whether or not there is a query string
FullUrlAlwaysMark(url, qs) == ROOT \o url \o << "?" >> \o qs

\* const fullUrl = `${ROOT}${url}${qs ? '?' + qs : ''}`
FullUrl(url, qs) == ROOT \o url \o (IF qs # << >> THEN << "?" >> \o qs ELSE << >>)

\* step 3: const defaultHeaders
DefaultHeaders(config, apiKey) ==
   LET auth == "Authorization" :> (<< "B","a","s","i","c"," " >> \o btoa(apiKey \o << ":" >>))
   IN  IF config.method # GET
       THEN Spread(auth, "Content-Type" :> ApplicationJson)
       ELSE auth

\* const mergedHeaders = { ...defaultHeaders, ...(init.headers ?? {}) }
MergedHeaders(config, apiKey, init) ==
   Spread(DefaultHeaders(config, apiKey),
          IF "headers" \in DOMAIN init THEN init["headers"] ELSE EmptyObject)

\* BodyPart without the test for GET
BodyPartNoGetCheck(build, config, data) ==
   IF build = "esm" /\ "body" \notin DOMAIN data
   THEN EmptyObject
   ELSE "body" :> JSONStringify(Get(data, "body"))

\* BodyPart that sends the body of a POST only
BodyPartPostOnly(build, config, data) ==
   IF config.method # POST \/ (build = "esm" /\ "body" \notin DOMAIN data)
   THEN EmptyObject
   ELSE "body" :> JSONStringify(Get(data, "body"))

\* the conditional spread that carries the body
BodyPart(build, config, data) ==
   IF build = "esm"
   THEN IF config.method = GET \/ "body" \notin DOMAIN data
        THEN EmptyObject
        ELSE "body" :> JSONStringify(data["body"])
   ELSE IF config.method = GET
        THEN EmptyObject
        ELSE "body" :> JSONStringify(Get(data, "body"))

\* FetchOptions with the overrides spread first, under the computed options
FetchOptionsInitFirst(build, config, apiKey, data, init) ==
   Spread(init,
          Spread(("method" :> config.method)
                  @@ ("headers" :> MergedHeaders(config, apiKey, init)),
                 BodyPart(build, config, data)))

\* step 4: the second argument of fetch
FetchOptions(build, config, apiKey, data, init) ==
   Spread(Spread(("method" :> config.method)
                  @@ ("headers" :> MergedHeaders(config, apiKey, init)),
                 BodyPart(build, config, data)),
          init)

Err(name, message) == [name |-> name, message |-> message]
NoError == Err("", << >>)

\* Thrown with a validation of the path: a placeholder left in the url after
\* step 1 is an error
ThrownOnUnmatched(build, config, apiKey, data, init) ==
   LET params == ParamsOf(build, data)
       query  == QueryOf(build, data)
   IN  IF ~NotNullish(params) THEN Err("TypeError", << >>)
       ELSE IF \E i \in 1..Len(Entries(params)) :
                  ThrowsURIError(String(Entries(params)[i][2]))
            THEN Err("URIError", << >>)
       ELSE IF Contains(Interpolate(config.path, Entries(params)), << "/", ":" >>)
            THEN Err("Error", << >>)
       ELSE IF ~NotNullish(query) THEN Err("TypeError", << >>)
       ELSE IF ThrowsInvalidCharacter(apiKey \o << ":" >>)
            THEN Err("InvalidCharacterError", << >>)
       ELSE NoError

\* the exception the synchronous part throws, NoError when it reaches fetch
Thrown(build, config, apiKey, data, init) ==
   LET params == ParamsOf(build, data)
       query  == QueryOf(build, data)
   IN  IF ~NotNullish(params) THEN Err("TypeError", << >>)
       ELSE IF \E i \in 1..Len(Entries(params)) :
                  ThrowsURIError(String(Entries(params)[i][2]))
            THEN Err("URIError", << >>)
       ELSE IF ~NotNullish(query) THEN Err("TypeError", << >>)
       ELSE IF ThrowsInvalidCharacter(apiKey \o << ":" >>)
            THEN Err("InvalidCharacterError", << >>)
       ELSE NoError

\* the url the call passes to fetch
RequestUrl(build, config, data) ==
   FullUrl(Interpolate(config.path, Entries(ParamsOf(build, data))),
           QueryString(QueryOf(build, data)))

(***************************************************************************)
(* The calls in progress and the requests handed to fetch                  *)
(***************************************************************************)
VARIABLES
   calls,     \* calls[c]: one invocation of an endpoint function
   network    \* the requests handed to fetch, in order

vars == << calls, network >>

NoConfig   == Config("", << >>, << >>)
NoResponse ==
   [status |-> 0, statusText |-> << >>, body |-> << >>, failure |-> NoError]

\* a call that has not been made yet.  steps records what the call has done:
\*   "fetch"   fetch was called and the call waits at  await fetch(...)
\*   "status"  res.ok was tested
\*   "json"    res.json() was called and the call waits at  await res.json()
\*   "resolve", "reject"  the promise of the call was settled
\* response and failure are what fetch settled with, the response it resolved
\* with or the failure it rejected with, value and error what the call
\* settled with.
IdleCall ==
   [pc |-> "idle", build |-> "", config |-> NoConfig, apiKey |-> << >>,
    data |-> EmptyObject, init |-> EmptyObject, fullUrl |-> << >>,
    response |-> NoResponse, failure |-> NoError,
    value |-> Undefined, error |-> NoError, steps |-> << >>]

\* Ok without the lower end of the range
OkBelow300(res) == res.status <= 299

\* Response.ok
Ok(res) == res.status >= 200 /\ res.status <= 299

\* the message of the Error thrown on a response that is not ok
ErrorMessage(build, config, fullUrl, res) ==
   LET tail == << "H","T","T","P"," " >> \o NumberToString(res.status)
               \o << ":", " " >> \o res.statusText
   IN  IF build = "esm"
       THEN config.method \o << " " >> \o fullUrl \o << " " >> \o tail
       ELSE tail

\* call(apiKey, data, init) runs up to its first await: it throws, or it calls fetch
\* Invoke that writes the url it built back into the descriptor: a later call
\* of the same endpoint starts from that url instead of the path template
InvokeKeepsUrl(c, build, config, apiKey, data, init) ==
   /\ calls[c].pc = "idle"
   /\ LET started == [calls[c] EXCEPT !.build = build, !.config = config,
                         !.apiKey = apiKey, !.data = data, !.init = init]
          thrown == Thrown(build, config, apiKey, data, init)
          prior == { i \in 1..Len(network) :
                       /\ calls[network[i].call].build = build
                       /\ calls[network[i].call].config = config }
          kept == IF prior = { } THEN config
                  ELSE [config EXCEPT !.path = network[CHOOSE i \in prior : TRUE].url]
          fullUrl == RequestUrl(build, kept, data)
      IN  IF thrown # NoError
          THEN /\ calls' = [calls EXCEPT ![c] =
                              [started EXCEPT !.pc = "rejected", !.error = thrown,
                                              !.steps = << "reject" >>]]
               /\ UNCHANGED network
          ELSE /\ calls' = [calls EXCEPT ![c] =
                              [started EXCEPT !.pc = "fetching", !.fullUrl = fullUrl,
                                              !.steps = << "fetch" >>]]
               /\ network' = Append(network,
                                [call |-> c,
                                 url |-> fullUrl,
                                 options |-> FetchOptions(build, config, apiKey, data, init)])

\* Invoke that keeps the credential of the first call that was made and signs
\* every later request with it
InvokeAmbientKey(c, build, config, apiKey, data, init) ==
   /\ calls[c].pc = "idle"
   /\ LET started == [calls[c] EXCEPT !.build = build, !.config = config,
                         !.apiKey = apiKey, !.data = data, !.init = init]
          thrown == Thrown(build, config, apiKey, data, init)
          fullUrl == RequestUrl(build, config, data)
          held == IF network = << >> THEN apiKey ELSE calls[network[1].call].apiKey
      IN  IF thrown # NoError
          THEN /\ calls' = [calls EXCEPT ![c] =
                              [started EXCEPT !.pc = "rejected", !.error = thrown,
                                              !.steps = << "reject" >>]]
               /\ UNCHANGED network
          ELSE /\ calls' = [calls EXCEPT ![c] =
                              [started EXCEPT !.pc = "fetching", !.fullUrl = fullUrl,
                                              !.steps = << "fetch" >>]]
               /\ network' = Append(network,
                                [call |-> c,
                                 url |-> fullUrl,
                                 options |-> FetchOptions(build, config, held, data, init)])

\* Invoke that answers from the request of an earlier call with the same
\* arguments instead of issuing a request of its own
InvokeCached(c, build, config, apiKey, data, init) ==
   /\ calls[c].pc = "idle"
   /\ LET started == [calls[c] EXCEPT !.build = build, !.config = config,
                         !.apiKey = apiKey, !.data = data, !.init = init]
          thrown == Thrown(build, config, apiKey, data, init)
          fullUrl == RequestUrl(build, config, data)
          options == FetchOptions(build, config, apiKey, data, init)
      IN  IF thrown # NoError
          THEN /\ calls' = [calls EXCEPT ![c] =
                              [started EXCEPT !.pc = "rejected", !.error = thrown,
                                              !.steps = << "reject" >>]]
               /\ UNCHANGED network
          ELSE /\ calls' = [calls EXCEPT ![c] =
                              [started EXCEPT !.pc = "fetching", !.fullUrl = fullUrl,
                                              !.steps = << "fetch" >>]]
               /\ network' =
                     IF \E i \in 1..Len(network) :
                           network[i].url = fullUrl /\ network[i].options = options
                     THEN network
                     ELSE Append(network,
                                 [call |-> c, url |-> fullUrl, options |-> options])

Invoke(c, build, config, apiKey, data, init) ==
   /\ calls[c].pc = "idle"
   /\ LET started == [calls[c] EXCEPT !.build = build, !.config = config,
                         !.apiKey = apiKey, !.data = data, !.init = init]
          thrown == Thrown(build, config, apiKey, data, init)
      IN  IF thrown # NoError
          THEN /\ calls' = [calls EXCEPT ![c] =
                              [started EXCEPT !.pc = "rejected", !.error = thrown,
                                              !.steps = << "reject" >>]]
               /\ UNCHANGED network
          ELSE LET fullUrl == RequestUrl(build, config, data)
               IN  /\ calls' = [calls EXCEPT ![c] =
                                  [started EXCEPT !.pc = "fetching", !.fullUrl = fullUrl,
                                                  !.steps = << "fetch" >>]]
                   /\ network' = Append(network,
                                    [call |-> c,
                                     url |-> fullUrl,
                                     options |-> FetchOptions(build, config, apiKey, data, init)])

\* Respond that gives up on the transport: the call rejects with a timeout of
\* its own and the response is dropped
RespondTimesOut(c, res) ==
   /\ calls[c].pc = "fetching"
   /\ calls' = [calls EXCEPT ![c] =
         [@ EXCEPT !.pc = "rejected", !.error = Err("TimeoutError", << >>),
                   !.steps = Append(@, "reject")]]
   /\ UNCHANGED network

\* Respond without the status check: res.json() is awaited on every response
RespondUnchecked(c, res) ==
   /\ calls[c].pc = "fetching"
   /\ calls' = [calls EXCEPT ![c] =
         [@ EXCEPT !.pc = "parsing", !.response = res,
                   !.steps = @ \o << "status", "json" >>]]
   /\ UNCHANGED network

\* Respond with the body decoded in the same step, without a second await
RespondDecodesInline(c, res) ==
   /\ calls[c].pc = "fetching"
   /\ LET cur == calls[c]
          r   == JSONParse(res.body)
      IN  calls' = [calls EXCEPT ![c] =
             IF ~Ok(res)
             THEN [cur EXCEPT !.pc = "rejected", !.response = res,
                              !.error = Err("Error",
                                            ErrorMessage(cur.build, cur.config,
                                                         cur.fullUrl, res)),
                              !.steps = cur.steps \o << "status", "reject" >>]
             ELSE IF res.failure # NoError
             THEN [cur EXCEPT !.pc = "rejected", !.response = res,
                              !.error = res.failure,
                              !.steps = cur.steps \o << "status", "reject" >>]
             ELSE IF r.ok
             THEN [cur EXCEPT !.pc = "resolved", !.response = res, !.value = r.v,
                              !.steps = cur.steps \o << "status", "resolve" >>]
             ELSE [cur EXCEPT !.pc = "rejected", !.response = res,
                              !.error = Err("SyntaxError", << >>),
                              !.steps = cur.steps \o << "status", "reject" >>]]
   /\ UNCHANGED network

\* Respond that takes the responses in the order of the requests: a call is
\* answered only when no earlier request is still in flight
RespondInOrder(c, res) ==
   /\ calls[c].pc = "fetching"
   /\ \A i, j \in 1..Len(network) :
         (network[j].call = c /\ i < j) => calls[network[i].call].pc # "fetching"
   /\ LET cur == calls[c]
      IN  calls' = [calls EXCEPT ![c] =
             IF ~Ok(res)
             THEN [cur EXCEPT !.pc = "rejected", !.response = res,
                              !.error = Err("Error",
                                            ErrorMessage(cur.build, cur.config,
                                                         cur.fullUrl, res)),
                              !.steps = cur.steps \o << "status", "reject" >>]
             ELSE [cur EXCEPT !.pc = "parsing", !.response = res,
                              !.steps = cur.steps \o << "status", "json" >>]]
   /\ UNCHANGED network

\* fetch resolves with a response: the status check, then the await of res.json()
Respond(c, res) ==
   /\ calls[c].pc = "fetching"
   /\ LET cur == calls[c]
      IN  calls' = [calls EXCEPT ![c] =
             IF ~Ok(res)
             THEN [cur EXCEPT !.pc = "rejected", !.response = res,
                              !.error = Err("Error",
                                            ErrorMessage(cur.build, cur.config,
                                                         cur.fullUrl, res)),
                              !.steps = cur.steps \o << "status", "reject" >>]
             ELSE [cur EXCEPT !.pc = "parsing", !.response = res,
                              !.steps = cur.steps \o << "status", "json" >>]]
   /\ UNCHANGED network

\* TransportFail that rejects with a new error made from the failure
TransportFailWrapped(c, failure) ==
   /\ calls[c].pc = "fetching"
   /\ calls' = [calls EXCEPT ![c] =
         [@ EXCEPT !.pc = "rejected", !.failure = failure,
                   !.error = Err("Error", failure.message),
                   !.steps = Append(@, "reject")]]
   /\ UNCHANGED network

\* TransportFail that sends the request again, once, instead of rejecting
TransportFailRetry(c, failure) ==
   /\ calls[c].pc = "fetching"
   /\ IF Cardinality({ i \in 1..Len(network) : network[i].call = c }) < 2
      THEN /\ calls' = [calls EXCEPT ![c] =
                 [@ EXCEPT !.failure = failure, !.steps = Append(@, "fetch")]]
           /\ network' = Append(network,
                 network[CHOOSE i \in 1..Len(network) : network[i].call = c])
      ELSE /\ calls' = [calls EXCEPT ![c] =
                 [@ EXCEPT !.pc = "rejected", !.failure = failure, !.error = failure,
                           !.steps = Append(@, "reject")]]
           /\ UNCHANGED network

\* fetch rejects: the await throws the transport's failure
TransportFail(c, failure) ==
   /\ calls[c].pc = "fetching"
   /\ calls' = [calls EXCEPT ![c] =
         [@ EXCEPT !.pc = "rejected", !.failure = failure, !.error = failure,
                   !.steps = Append(@, "reject")]]
   /\ UNCHANGED network

\* res.json() settles: the await throws the failure the body stopped arriving
\* with, or the parsed body is returned, or the SyntaxError of the parse is
\* thrown
JsonDone(c) ==
   /\ calls[c].pc = "parsing"
   /\ LET res == calls[c].response
          r   == JSONParse(res.body)
      IN  calls' = [calls EXCEPT ![c] =
             IF res.failure # NoError
             THEN [@ EXCEPT !.pc = "rejected", !.error = res.failure,
                            !.steps = Append(@, "reject")]
             ELSE IF r.ok
             THEN [@ EXCEPT !.pc = "resolved", !.value = r.v,
                            !.steps = Append(@, "resolve")]
             ELSE [@ EXCEPT !.pc = "rejected", !.error = Err("SyntaxError", << >>),
                            !.steps = Append(@, "reject")]]
   /\ UNCHANGED network

(***************************************************************************)
(* Inputs                                                                  *)
(***************************************************************************)
Builds == { "ts", "dist", "esm" }

RECURSIVE Split(_, _)
\* String.prototype.split on a one-character separator
Split(s, sep) ==
   LET p == IndexOf(s, << sep >>)
   IN  IF p = 0 THEN << s >>
       ELSE << SubSeq(s, 1, p - 1) >> \o Split(Drop(s, p), sep)

\* the placeholder names of a path template, in template order
Placeholders(path) ==
   LET segs  == Split(path, "/")
       named == SelectSeq(segs, LAMBDA g : g # << >> /\ Head(g) = ":")
   IN  [i \in 1..Len(named) |-> Tail(named[i])]

\* the params objects that give each of names a value of Values, in that order
ParamsOver(names, Values) ==
   { Obj([i \in 1..Len(names) |-> << names[i], Str(vs[i]) >>]) :
        vs \in [1..Len(names) -> Values] }

Reverse(q) == [i \in 1..Len(q) |-> q[Len(q) + 1 - i]]

K_limit  == <<"l","i","m","i","t">>
K_offset == <<"o","f","f","s","e","t">>
K_expand == <<"e","x","p","a","n","d">>
K_tags   == <<"t","a","g","s">>

CallEndpointNames ==
   { "retrieveApplication", "listOpportunities", "addOpportunityTags",
     "updateInterview", "deleteNote" }

CallApiKeys == { <<"k","e","y">>, <<"k","U+00E9">>, <<"k","U+20AC">> }

CallParamValues == { <<"o","p","1">>, <<"a","b","c"," ","1","2","3">> }

\* data.query: left out, {} or { limit: 50, offset: null }
CallQueries ==
   { EmptyObject,
     "query" :> Obj(<< >>),
     "query" :> Obj(<< << K_limit, Num(50) >>, << K_offset, Null >> >>) }

\* data.body: left out, { tags: ['a', 'b'] } or null
CallBodies ==
   { EmptyObject,
     "body" :> Obj(<< << K_tags, Arr(<< Str(<<"a">>), Str(<<"b">>) >>) >> >>),
     "body" :> Null }

\* init: {}, headers of several kinds, and the keys the declared type leaves out
CallInits ==
   { EmptyObject,
     "headers" :> EmptyObject,
     "headers" :> ("X-Trace" :> <<"1">>),
     "headers" :> ("Authorization" :> <<"B","e","a","r","e","r"," ","t">>),
     "headers" :> ("Content-Type" :> <<"t","e","x","t","/","p","l","a","i","n">>),
     "headers" :> ("Content-Type" :> ApplicationJson),
     "body" :> Str(<<"r","a","w">>),
     "method" :> <<"P","A","T","C","H">> }

\* a response whose body arrives whole
Response(status, statusText, body) ==
   [status |-> status, statusText |-> statusText, body |-> body,
    failure |-> NoError]

\* a response whose body stops arriving: body is the part that arrived, and
\* reading it fails with the failure of the transport
CutShort(res, failure) == [res EXCEPT !.failure = failure]

T_OK       == <<"O","K">>
T_NotFound == <<"N","o","t"," ","F","o","u","n","d">>
T_DataIdX  == <<"{","\"","d","a","t","a","\"",":","{","\"","i","d","\"",":","\"","x","\"","}","}">>
T_Html     == <<"<","h","t","m","l",">">>
\* the body 1 behind a byte order mark
T_MarkOne  == <<"U+FEFF","1">>
\* the body 1 behind two byte order marks
T_MarkTwo  == <<"U+FEFF","U+FEFF","1">>
\* the first three characters of {"data":{"id":"x"}}, and all of null
T_Partial  == <<"{","\"","d">>
T_Null     == <<"n","u","l","l">>
T_Terminated == <<"t","e","r","m","i","n","a","t","e","d">>

CallResponses ==
   { Response(200, T_OK, T_DataIdX),
     Response(200, T_OK, T_Html),
     Response(204, <<"N","o"," ","C","o","n","t","e","n","t">>, << >>),
     Response(200, T_OK, T_MarkOne),
     Response(200, T_OK, T_MarkTwo),
     Response(299, << >>, T_Null),
     Response(199, << >>, T_DataIdX),
     Response(300, << >>, T_DataIdX),
     Response(404, T_NotFound, T_Html),
     CutShort(Response(200, T_OK, T_Partial), Err("TypeError", T_Terminated)),
     CutShort(Response(200, T_OK, T_Null), Err("AbortError", << >>)) }

CallFailures ==
   { Err("TypeError", <<"f","e","t","c","h"," ","f","a","i","l","e","d">>),
     Err("AbortError", << >>) }

\* data = { params, query?, body? }
CallData(config) ==
   { ("params" :> ps) @@ q @@ b :
        ps \in ParamsOver(Placeholders(config.path), CallParamValues),
        q \in CallQueries, b \in CallBodies }

(***************************************************************************)
(* One call, from its invocation to its settlement                         *)
(***************************************************************************)
Init ==
   /\ calls = [c \in { 1 } |-> IdleCall]
   /\ network = << >>

\* the calls at a given point of their code
At(pc) == { c \in DOMAIN calls : calls[c].pc = pc }

Next ==
   \/ \E c \in At("idle"), build \in Builds :
         \E config \in { e \in Endpoints(build) : e.name \in CallEndpointNames } :
            \E apiKey \in CallApiKeys, data \in CallData(config), init \in CallInits :
               Invoke(c, build, config, apiKey, data, init)
   \/ \E c \in At("fetching"), res \in CallResponses : Respond(c, res)
   \/ \E c \in At("fetching"), failure \in CallFailures : TransportFail(c, failure)
   \/ \E c \in At("parsing") : JsonDone(c)

Spec == Init /\ [][Next]_vars

(***************************************************************************)
(* Query serialization: calls over a range of query mappings               *)
(***************************************************************************)
\* the largest number of entries of a query mapping
MaxQueryLen == 2

QueryKeys == { K_limit, K_expand, <<"a"," ","b">> }

QueryValues ==
   { Num(0), Num(50), Bool(FALSE), Str(<< >>), Str(<<"x","~","y">>),
     Str(<<"a","&","b","=","c"," ","U+00E9">>), Null, Undefined }

\* the sequences of n distinct elements of S
Arrangements(S, n) == { q \in [1..n -> S] : \A i, j \in 1..n : i # j => q[i] # q[j] }

\* the query mappings of at most MaxQueryLen entries
QueryMappings ==
   UNION { { Obj([i \in 1..n |-> << ks[i], vs[i] >>]) :
                ks \in Arrangements(QueryKeys, n), vs \in [1..n -> QueryValues] } :
           n \in 0..MaxQueryLen }

QueryEndpointNames == { "listOpportunities", "listApplications" }

K_key == <<"k","e","y">>

QueryData(config) ==
   { ("params" :> ps) @@ q :
        ps \in ParamsOver(Placeholders(config.path), { <<"o","p","1">> }),
        q \in { EmptyObject } \cup { "query" :> m : m \in QueryMappings } }

NextQuery ==
   \E c \in At("idle"), build \in Builds :
      \E config \in { e \in Endpoints(build) : e.name \in QueryEndpointNames } :
         \E data \in QueryData(config) :
            Invoke(c, build, config, K_key, data, EmptyObject)

SpecQuery == Init /\ [][NextQuery]_vars

(***************************************************************************)
(* Path interpolation: calls of every declared endpoint                    *)
(***************************************************************************)
PathParamValues ==
   { <<"o","p","1">>, <<"a","b","c"," ","1","2","3">>, << >>,
     <<"a","/","b">>, <<"?","x","=","1","#","f">>, <<"$","&",":","$","$">>,
     <<":","a","p","p","l","i","c","a","t","i","o","n">>,
     <<"U+00E9","U+20AC","~","'">>, <<"U+D800">> }

\* params with exactly the placeholders of the path, in either property order
ExactParams(config) ==
   ParamsOver(Placeholders(config.path), PathParamValues)
   \cup ParamsOver(Reverse(Placeholders(config.path)), PathParamValues)

PathData(config) ==
   { ("params" :> ps) @@ ("query" :> Obj(<< >>)) : ps \in ExactParams(config) }

NextPath ==
   \E c \in At("idle"), build \in Builds :
      \E config \in Endpoints(build) :
         \E data \in PathData(config) :
            Invoke(c, build, config, K_key, data, EmptyObject)

SpecPath == Init /\ [][NextPath]_vars

(***************************************************************************)
(* Decoders, as a receiver of the request applies them                     *)
(***************************************************************************)
HexValue(c) == IF c \in Digits THEN Code(c) - 48 ELSE Code(c) - 55

\* the surrogate pair of a code point above U+FFFF
PairOf(cp) ==
   << CharOf(55296 + ((cp - 65536) \div 1024)), CharOf(56320 + ((cp - 65536) % 1024)) >>

RECURSIVE Utf8Decode(_)
\* the characters of a well-formed UTF-8 byte sequence
Utf8Decode(bs) ==
   IF bs = << >> THEN << >>
   ELSE IF bs[1] < 128 THEN << CharOf(bs[1]) >> \o Utf8Decode(Drop(bs, 1))
   ELSE IF bs[1] < 224
        THEN << CharOf((bs[1] - 192) * 64 + (bs[2] - 128)) >> \o Utf8Decode(Drop(bs, 2))
   ELSE IF bs[1] < 240
        THEN << CharOf((bs[1] - 224) * 4096 + (bs[2] - 128) * 64 + (bs[3] - 128)) >>
             \o Utf8Decode(Drop(bs, 3))
        ELSE PairOf((bs[1] - 240) * 262144 + (bs[2] - 128) * 4096
                    + (bs[3] - 128) * 64 + (bs[4] - 128))
             \o Utf8Decode(Drop(bs, 4))

RECURSIVE PercentDecodeBytes(_, _)
\* the bytes of a percent-encoded text; plus says whether "+" stands for a space
PercentDecodeBytes(s, plus) ==
   IF s = << >> THEN << >>
   ELSE IF Head(s) = "%" /\ Len(s) >= 3
        THEN << HexValue(s[2]) * 16 + HexValue(s[3]) >> \o PercentDecodeBytes(Drop(s, 3), plus)
   ELSE IF Head(s) = "+" /\ plus THEN << 32 >> \o PercentDecodeBytes(Tail(s), plus)
   ELSE Utf8(Code(Head(s))) \o PercentDecodeBytes(Tail(s), plus)

\* decodeURIComponent
decodeURIComponent(s) == Utf8Decode(PercentDecodeBytes(s, FALSE))

\* the application/x-www-form-urlencoded decoding of one name or value
FormDecode(s) == Utf8Decode(PercentDecodeBytes(s, TRUE))

\* the << name, value >> pairs a server reads from a query string
ParseQueryString(qs) ==
   IF qs = << >> THEN << >>
   ELSE LET parts == Split(qs, "&")
        IN  [i \in 1..Len(parts) |->
               LET p == IndexOf(parts[i], << "=" >>)
               IN  IF p = 0 THEN << FormDecode(parts[i]), << >> >>
                   ELSE << FormDecode(SubSeq(parts[i], 1, p - 1)),
                           FormDecode(Drop(parts[i], p)) >>]

B64Value(c) == (CHOOSE n \in 1..64 : B64Alphabet[n] = c) - 1

RECURSIVE Base64Decode(_)
\* the bytes of a padded base64 text
Base64Decode(s) ==
   IF Len(s) < 4 THEN << >>
   ELSE LET a == B64Value(s[1])
            b == B64Value(s[2])
        IN  IF s[3] = "=" THEN << a * 4 + (b \div 16) >>
            ELSE IF s[4] = "="
                 THEN << a * 4 + (b \div 16), (b % 16) * 16 + (B64Value(s[3]) \div 4) >>
            ELSE << a * 4 + (b \div 16), (b % 16) * 16 + (B64Value(s[3]) \div 4),
                    (B64Value(s[3]) % 4) * 64 + B64Value(s[4]) >>
                 \o Base64Decode(Drop(s, 4))

\* atob: one character per byte
atob(s) == [i \in 1..Len(Base64Decode(s)) |-> CharOf(Base64Decode(s)[i])]

\* the part of a url after its first "?", empty when it has none
UrlQuery(url) ==
   LET p == IndexOf(url, << "?" >>) IN IF p = 0 THEN << >> ELSE Drop(url, p)

\* the part of a url after ROOT and before its first "?"
UrlPath(url) ==
   LET p    == IndexOf(url, << "?" >>)
       head == IF p = 0 THEN url ELSE SubSeq(url, 1, p - 1)
   IN  Drop(head, Len(ROOT))

(***************************************************************************)
(* Properties of the request a call hands to fetch                         *)
(***************************************************************************)
\* the indices of the requests issued so far
Requests == 1..Len(network)

\* the call that issued request i
CallOf(i) == calls[network[i].call]

\* the headers request i is sent with
SentHeaders(i) == network[i].options["headers"]

\* the headers the caller put in the overrides of a call
CallerHeaders(call) ==
   IF "headers" \in DOMAIN call.init THEN call.init["headers"] ELSE EmptyObject

\* a request carries a body unless the option is missing, undefined or null
CarriesBody(options) == "body" \in DOMAIN options /\ NotNullish(options["body"])

\* C1: every request carries an Authorization header, and unless the caller
\* overrides Authorization its value is "Basic " followed by the base64 of
\* the credential and a colon (empty password).
C1_AuthorizationOnEveryRequest ==
   \A i \in Requests :
      /\ "Authorization" \in DOMAIN SentHeaders(i)
      /\ "Authorization" \notin DOMAIN CallerHeaders(CallOf(i)) =>
            LET v == SentHeaders(i)["Authorization"]
            IN  /\ StartsWith(v, << "B","a","s","i","c"," " >>)
                /\ atob(Drop(v, 6)) = CallOf(i).apiKey \o << ":" >>

\* C2: the headers sent are the default headers with the caller's headers
\* merged on top: the caller's value on every key the caller names, and the
\* default value on every default key the caller does not name.
C2_CallerHeadersMergedOnDefaults ==
   \A i \in Requests :
      LET call     == CallOf(i)
          defaults == DefaultHeaders(call.config, call.apiKey)
          own      == CallerHeaders(call)
          sent     == SentHeaders(i)
      IN  /\ DOMAIN sent = (DOMAIN defaults) \cup (DOMAIN own)
          /\ \A k \in DOMAIN own : sent[k] = own[k]
          /\ \A k \in (DOMAIN defaults) \ (DOMAIN own) : sent[k] = defaults[k]

\* C3: every request of a descriptor whose method is not GET carries
\* Content-Type: application/json, unless the caller's overrides supply a
\* different Content-Type value.
C3_NonGetSendsJsonContentType ==
   \A i \in Requests :
      LET call == CallOf(i)
          own  == CallerHeaders(call)
      IN  (/\ call.config.method # GET
           /\ ~("Content-Type" \in DOMAIN own /\ own["Content-Type"] # ApplicationJson))
          => /\ "Content-Type" \in DOMAIN SentHeaders(i)
             /\ SentHeaders(i)["Content-Type"] = ApplicationJson

\* C4: a request of a GET descriptor carries no body, whatever data.body is
\* (the overrides being of their declared type, which has no body).
C4_GetCarriesNoBody ==
   \A i \in Requests :
      (CallOf(i).config.method = GET /\ "body" \notin DOMAIN CallOf(i).init)
      => ~CarriesBody(network[i].options)

\* a GET request was issued for a call whose data.body is an object
C4_Witness ==
   \E i \in Requests :
      /\ CallOf(i).config.method = GET
      /\ "body" \notin DOMAIN CallOf(i).init
      /\ Get(CallOf(i).data, "body").t = "obj"
      /\ ~CarriesBody(network[i].options)

\* C5: for a descriptor that is not GET, the request body is a JSON text that
\* reads back as data.body when data.body is present, and the request has no
\* body when data.body is absent (the overrides having no body of their own).
C5_NonGetBodyIsJsonOfPayload ==
   \A i \in Requests :
      (CallOf(i).config.method # GET /\ "body" \notin DOMAIN CallOf(i).init)
      => LET body == Get(CallOf(i).data, "body")
             sent == Get(network[i].options, "body")
         IN  IF body.t = "undefined"
             THEN ~CarriesBody(network[i].options)
             ELSE /\ sent.t = "str"
                  /\ JSONParse(sent.s).ok
                  /\ JSONParse(sent.s).v = body

\* a request that is not GET was issued with the JSON text of an object
C5_Witness ==
   \E i \in Requests :
      /\ CallOf(i).config.method \in { PUT, DELETE }
      /\ "body" \notin DOMAIN CallOf(i).init
      /\ Get(CallOf(i).data, "body").t = "obj"
      /\ CarriesBody(network[i].options)

\* the calls that have been made
Invoked == { c \in DOMAIN calls : calls[c].pc # "idle" }

\* C7: a call whose data has no query does not fail and issues exactly one
\* request, to ROOT followed by the interpolated path, with no "?".
C7_QueryIsOptional ==
   \A c \in Invoked :
      (/\ "query" \notin DOMAIN calls[c].data
       /\ ~ThrowsInvalidCharacter(calls[c].apiKey))
      => /\ Cardinality({ i \in Requests : network[i].call = c }) = 1
         /\ \A i \in Requests :
               network[i].call = c =>
                  /\ ~Contains(network[i].url, << "?" >>)
                  /\ network[i].url
                        = ROOT \o Interpolate(calls[c].config.path,
                                              Entries(calls[c].data["params"]))

\* C10: a call rejected for a status outside 200..299 rejects with an error
\* that carries the descriptor's method, the request url, the status code
\* and the status text.
C10_StatusErrorCarriesContext ==
   \A c \in Invoked :
      (/\ calls[c].pc = "rejected"
       /\ calls[c].error.name = "Error")
      => /\ ~Ok(calls[c].response)
         /\ Contains(calls[c].error.message, calls[c].config.method)
         /\ Contains(calls[c].error.message, calls[c].fullUrl)
         /\ Contains(calls[c].error.message, NumberToString(calls[c].response.status))
         /\ Contains(calls[c].error.message, calls[c].response.statusText)

(***************************************************************************)
(* Properties of the request url                                           *)
(***************************************************************************)
\* the entries of the query mapping a call was given
QueryEntries(call) == Entries(call.data["query"])

\* the positions in pairs of the name k
PositionsOf(pairs, k) == { j \in 1..Len(pairs) : pairs[j][1] = k }

\* C6: a key whose value is null or undefined does not appear in the query
\* string of the request; every other key (also one whose value is 0, false
\* or the empty string) appears exactly once, with the value String(value),
\* and the keys appear in the order of the mapping.
C6_QueryDropsOnlyNullish ==
   \A i \in Requests :
      "query" \in DOMAIN CallOf(i).data =>
         LET entries == QueryEntries(CallOf(i))
             pairs   == ParseQueryString(UrlQuery(network[i].url))
             kept    == { e \in 1..Len(entries) : NotNullish(entries[e][2]) }
         IN  /\ \A e \in 1..Len(entries) :
                   IF e \in kept
                   THEN /\ Cardinality(PositionsOf(pairs, entries[e][1])) = 1
                        /\ \A j \in PositionsOf(pairs, entries[e][1]) :
                              pairs[j][2] = String(entries[e][2])
                   ELSE PositionsOf(pairs, entries[e][1]) = {}
             /\ Len(pairs) = Cardinality(kept)
             /\ \A e1, e2 \in kept :
                   e1 < e2 =>
                      \A j1 \in PositionsOf(pairs, entries[e1][1]),
                         j2 \in PositionsOf(pairs, entries[e2][1]) : j1 < j2

\* a request whose query mapping has a dropped null and a kept 0, false or ""
C6_Witness ==
   \E i \in Requests :
      /\ "query" \in DOMAIN CallOf(i).data
      /\ Len(QueryEntries(CallOf(i))) = 2
      /\ QueryEntries(CallOf(i))[1][2] \in { Null, Undefined }
      /\ QueryEntries(CallOf(i))[2][2] \in { Num(0), Bool(FALSE), Str(<< >>) }
      /\ Len(ParseQueryString(UrlQuery(network[i].url))) = 1

\* every entry of the query mapping of a call is dropped (or it has none)
AllDropped(call) ==
   \A e \in 1..Len(QueryEntries(call)) : ~NotNullish(QueryEntries(call)[e][2])

\* C8: the request url is ROOT, the interpolated path and, when the query
\* string is not empty, "?" and the query string; it is ROOT and the
\* interpolated path with no "?" when every query entry was dropped or the
\* mapping is empty.
C8_UrlAssembly ==
   \A i \in Requests :
      "query" \in DOMAIN CallOf(i).data =>
         LET call == CallOf(i)
             path == Interpolate(call.config.path, Entries(call.data["params"]))
             qs   == QueryString(call.data["query"])
         IN  /\ qs # << >> => network[i].url = ROOT \o path \o << "?" >> \o qs
             /\ AllDropped(call) =>
                   /\ network[i].url = ROOT \o path
                   /\ ~Contains(network[i].url, << "?" >>)
             /\ AllDropped(call) \/ qs # << >>

\* a request whose query entries were all dropped, sent without a "?"
C8_Witness ==
   \E i \in Requests :
      /\ "query" \in DOMAIN CallOf(i).data
      /\ Len(QueryEntries(CallOf(i))) = 2
      /\ AllDropped(CallOf(i))
      /\ ~Contains(network[i].url, << "?" >>)

\* the value params gives to a name
ParamValue(params, name) ==
   LET e == CHOOSE e \in 1..Len(Entries(params)) : Entries(params)[e][1] = name
   IN  String(Entries(params)[e][2])

\* params names exactly the placeholders of the path
HasExactParams(call) ==
   LET names == Placeholders(call.config.path)
       given == Entries(call.data["params"])
   IN  /\ Len(given) = Len(names)
       /\ { given[e][1] : e \in 1..Len(given) } = { names[n] : n \in 1..Len(names) }

\* C9: for every declared descriptor, a call whose params name exactly the
\* placeholders of the path yields a url whose path has, segment by segment,
\* the template's text or, in place of a placeholder, the percent-encoded
\* value (which decodes to the value), and no ":" token is left.
C9_PlaceholdersReplaced ==
   \A i \in Requests :
      HasExactParams(CallOf(i)) =>
         LET call == CallOf(i)
             tpl  == Split(call.config.path, "/")
             got  == Split(UrlPath(network[i].url), "/")
         IN  /\ call.config \in Endpoints(call.build)
             /\ StartsWith(network[i].url, ROOT)
             /\ Len(got) = Len(tpl)
             /\ \A g \in 1..Len(tpl) :
                   IF tpl[g] # << >> /\ Head(tpl[g]) = ":"
                   THEN /\ got[g] = encodeURIComponent(
                                       ParamValue(call.data["params"], Tail(tpl[g])))
                        /\ decodeURIComponent(got[g])
                              = ParamValue(call.data["params"], Tail(tpl[g]))
                   ELSE got[g] = tpl[g]
             /\ ~Contains(UrlPath(network[i].url), << ":" >>)

\* a request of a two-placeholder descriptor with the value "abc 123"
\* sent as abc%20123, and with a value that holds a "/"
C9_Witness ==
   \E i \in Requests :
      /\ HasExactParams(CallOf(i))
      /\ Len(Placeholders(CallOf(i).config.path)) = 2
      /\ ParamValue(CallOf(i).data["params"], Placeholders(CallOf(i).config.path)[1])
            = <<"a","b","c"," ","1","2","3">>
      /\ ParamValue(CallOf(i).data["params"], Placeholders(CallOf(i).config.path)[2])
            = <<"a","/","b">>
      /\ Contains(network[i].url, <<"/","a","b","c","%","2","0","1","2","3","/">>)

\* ---------------------------------------------------------------------------
\* How a call settles
\* ---------------------------------------------------------------------------

Range(seq) == { seq[i] : i \in DOMAIN seq }

\* how many times a call has done the step
Count(seq, x) == Cardinality({ i \in DOMAIN seq : seq[i] = x })

\* the requests a call has issued
RequestsOf(c) == { i \in Requests : network[i].call = c }

Settled(c) == calls[c].pc \in { "resolved", "rejected" }

\* the transport delivered a response to the call
Delivered(c) == "status" \in Range(calls[c].steps)

\* the call waited for res.json() and res.json() has settled
Decoded(c) == "json" \in Range(calls[c].steps) /\ calls[c].pc # "parsing"

\* the value of the body {"data":{"id":"x"}}
V_DataIdX ==
   Obj(<< << <<"d","a","t","a">>, Obj(<< << <<"i","d">>, Str(<< "x" >>) >> >>) >> >>)

\* the body of the response arrived whole and parses as JSON
ParsesAsJSON(res) == res.failure = NoError /\ JSONParse(res.body).ok

\* C11: a call resolves exactly when the transport delivered a response with
\* a status in 200..299 whose body parses as JSON, and then with the parsed
\* value: {data:{id:"x"}} for the body {"data":{"id":"x"}}, null for null, 1
\* for a 1 behind one or two byte order marks; a call answered with any other
\* status never resolves.
C11_ResolvesIffOkAndJson ==
   \A c \in Invoked :
      /\ calls[c].pc = "resolved"
            => /\ Delivered(c)
               /\ calls[c].response.status \in 200..299
               /\ ParsesAsJSON(calls[c].response)
               /\ calls[c].value = JSONParse(calls[c].response.body).v
               /\ calls[c].response.body = T_DataIdX => calls[c].value = V_DataIdX
               /\ calls[c].response.body = T_Null => calls[c].value = Null
               /\ calls[c].response.body = T_MarkOne => calls[c].value = Num(1)
               /\ calls[c].response.body = T_MarkTwo => calls[c].value = Num(1)
      /\ (/\ Settled(c) /\ Delivered(c)
          /\ calls[c].response.status \in 200..299
          /\ ParsesAsJSON(calls[c].response))
            => calls[c].pc = "resolved"
      /\ (Delivered(c) /\ calls[c].response.status \notin 200..299)
            => calls[c].pc = "rejected"

\* a call answered 200 with {"data":{"id":"x"}} resolved with that value
C11_Witness ==
   \E c \in Invoked :
      /\ calls[c].pc = "resolved"
      /\ calls[c].response.status = 200
      /\ calls[c].value = V_DataIdX

\* C12: a call whose 2xx response has an empty body or a body that is not
\* valid JSON rejects with a MalformedResponse error.
C12_MalformedResponseError ==
   \A c \in Invoked :
      (/\ Decoded(c)
       /\ calls[c].response.failure = NoError
       /\ ~JSONParse(calls[c].response.body).ok)
         => /\ calls[c].pc = "rejected"
            /\ calls[c].error.name = "MalformedResponse"

\* C13: a call whose transport failed rejects with the transport's failure,
\* unchanged, and neither tests the status nor decodes a body.
C13_TransportFailurePropagates ==
   \A c \in Invoked :
      calls[c].failure # NoError
         => /\ calls[c].pc = "rejected"
            /\ calls[c].error = calls[c].failure
            /\ "status" \notin Range(calls[c].steps)
            /\ "json" \notin Range(calls[c].steps)
            /\ calls[c].response = NoResponse

\* a call was rejected with the AbortError the transport failed with
C13_Witness ==
   \E c \in Invoked :
      /\ calls[c].failure = Err("AbortError", << >>)
      /\ calls[c].error = Err("AbortError", << >>)
      /\ calls[c].steps = << "fetch", "reject" >>

\* C14: every call issues exactly one request, whatever its data (params,
\* with or without query, with or without body) and overrides.
C14_ExactlyOneRequest ==
   \A c \in Invoked : Cardinality(RequestsOf(c)) = 1

\* the call met one of the three failures: a status outside 200..299, a body
\* that does not parse, a failure of the transport, before the response or
\* while its body arrives
Failed(c) ==
   \/ Delivered(c) /\ calls[c].response.status \notin 200..299
   \/ Decoded(c) /\ ~JSONParse(calls[c].response.body).ok
   \/ calls[c].failure # NoError
   \/ Decoded(c) /\ calls[c].response.failure # NoError

\* C15: a call that met one of the three failures is rejected, was settled
\* exactly once, and its one request was issued before the failure: the
\* rejection is the last thing the call did.
C15_FailuresAreTerminal ==
   \A c \in Invoked :
      Failed(c)
         => /\ calls[c].pc = "rejected"
            /\ Count(calls[c].steps, "reject") = 1
            /\ Count(calls[c].steps, "resolve") = 0
            /\ calls[c].steps[Len(calls[c].steps)] = "reject"
            /\ Count(calls[c].steps, "fetch") = 1
            /\ Cardinality(RequestsOf(c)) = 1

\* a call was rejected with the failure the body of its 200 response stopped
\* arriving with, after its one request
C15_Witness ==
   \E c \in Invoked :
      /\ calls[c].response.status = 200
      /\ calls[c].response.failure = Err("TypeError", T_Terminated)
      /\ calls[c].error = Err("TypeError", T_Terminated)
      /\ calls[c].steps = << "fetch", "status", "json", "reject" >>
      /\ Cardinality(RequestsOf(c)) = 1

\* C18: a method or a body in the overrides is the method or the body the
\* request is sent with, in place of the descriptor's method and of the
\* serialized data.body.
C18_OverridesAppliedLast ==
   \A i \in Requests :
      /\ "method" \in DOMAIN CallOf(i).init
            => network[i].options["method"] = CallOf(i).init["method"]
      /\ "body" \in DOMAIN CallOf(i).init
            => /\ "body" \in DOMAIN network[i].options
               /\ network[i].options["body"] = CallOf(i).init["body"]

\* a GET request carries the body of the overrides
C18_Witness ==
   \E i \in Requests :
      /\ CallOf(i).config.method = GET
      /\ "body" \in DOMAIN CallOf(i).init
      /\ network[i].options["method"] = GET
      /\ network[i].options["body"] = Str(<<"r","a","w">>)

\* C19: a call answered with a status outside 200..299 rejects without
\* res.json() having been called.
C19_NonOkBodyNeverRead ==
   \A c \in Invoked :
      (Delivered(c) /\ calls[c].response.status \notin 200..299)
         => /\ "json" \notin Range(calls[c].steps)
            /\ calls[c].steps = << "fetch", "status", "reject" >>

\* a call answered 404 was rejected and never called res.json()
C19_Witness ==
   \E c \in Invoked :
      /\ calls[c].response.status = 404
      /\ calls[c].pc = "rejected"
      /\ "json" \notin Range(calls[c].steps)

\* how many times the call has suspended: once at each await
Suspensions(c) == Count(calls[c].steps, "fetch") + Count(calls[c].steps, "json")

\* C20 as stated: a call that transmits its request suspends exactly once.
C20_SingleSuspension ==
   \A c \in Invoked :
      "fetch" \in Range(calls[c].steps) => Suspensions(c) = 1

\* C20, amended: a call that transmits its request suspends once for the
\* transport, and a second time, for the body, when the response has a
\* status in 200..299; it suspends once when the transport fails or the
\* status is outside 200..299.
C20_SuspendsAgainForBody ==
   \A c \in Invoked :
      "fetch" \in Range(calls[c].steps)
         => /\ Suspensions(c)
                  = IF Delivered(c) /\ calls[c].response.status \in 200..299
                    THEN 2 ELSE 1
            /\ calls[c].pc = "parsing" => Delivered(c)
            /\ calls[c].pc = "fetching" => ~Delivered(c)

\* a call is suspended at await res.json(), after its response arrived
C20_Witness ==
   \E c \in Invoked :
      /\ calls[c].pc = "parsing"
      /\ calls[c].steps = << "fetch", "status", "json" >>
      /\ Suspensions(c) = 2

(***************************************************************************)
(* Several calls in flight at once                                         *)
(***************************************************************************)
MaxCalls == 2

PairBuilds == { "ts", "esm" }

PairEndpointNames == { "retrieveOpportunity", "addOpportunityTags" }

PairParamValues == { <<"o","p","1">> }

\* data = { params, query: {} } for GET, and with body: { tags: ['a', 'b'] }
\* for the other methods
PairData(config) ==
   { ("params" :> ps) @@ ("query" :> Obj(<< >>))
        @@ (IF config.method = GET THEN EmptyObject
            ELSE "body" :> Obj(<< << K_tags, Arr(<< Str(<<"a">>), Str(<<"b">>) >>) >> >>)) :
        ps \in ParamsOver(Placeholders(config.path), PairParamValues) }

PairResponses ==
   { Response(200, T_OK, T_DataIdX),
     Response(200, T_OK, T_Html),
     Response(404, T_NotFound, T_Html),
     CutShort(Response(200, T_OK, T_Null), Err("TypeError", T_Terminated)) }

PairFailures == { Err("TypeError", <<"f","e","t","c","h"," ","f","a","i","l","e","d">>) }

InitPair ==
   /\ calls = [c \in 1..MaxCalls |-> IdleCall]
   /\ network = << >>

\* the calls are made in any order and their transports answer in any order
NextPair ==
   \/ \E c \in At("idle"), build \in PairBuilds :
         \E config \in { e \in Endpoints(build) : e.name \in PairEndpointNames } :
            \E data \in PairData(config) :
               Invoke(c, build, config, K_key, data, EmptyObject)
   \/ \E c \in At("fetching"), res \in PairResponses : Respond(c, res)
   \/ \E c \in At("fetching"), failure \in PairFailures : TransportFail(c, failure)
   \/ \E c \in At("parsing") : JsonDone(c)

SpecPair == InitPair /\ [][NextPair]_vars

\* two calls were made with the same arguments
SameArguments(c, d) ==
   /\ calls[c].build = calls[d].build
   /\ calls[c].config = calls[d].config
   /\ calls[c].apiKey = calls[d].apiKey
   /\ calls[c].data = calls[d].data
   /\ calls[c].init = calls[d].init

\* C16: two GET calls with the same arguments issue a request each, the two
\* requests have the same method, url and headers, and when both calls got
\* the same response they settled with equal results.
C16_NoCaching ==
   \A c, d \in Invoked :
      (c # d /\ SameArguments(c, d) /\ calls[c].config.method = GET)
         => /\ Cardinality(RequestsOf(c)) = 1
            /\ Cardinality(RequestsOf(d)) = 1
            /\ RequestsOf(c) \cap RequestsOf(d) = { }
            /\ \A i \in RequestsOf(c), j \in RequestsOf(d) :
                  /\ network[i].url = network[j].url
                  /\ network[i].options["method"] = network[j].options["method"]
                  /\ network[i].options["headers"] = network[j].options["headers"]
            /\ (/\ Settled(c) /\ Settled(d)
                /\ Delivered(c) /\ Delivered(d)
                /\ calls[c].response = calls[d].response)
                  => /\ calls[c].pc = calls[d].pc
                     /\ calls[c].value = calls[d].value
                     /\ calls[c].error = calls[d].error

\* the same GET call was made twice, two requests went out, and both calls
\* resolved with the value of the same response
C16_Witness ==
   \E c, d \in Invoked :
      /\ c # d /\ SameArguments(c, d) /\ calls[c].config.method = GET
      /\ Len(network) = 2
      /\ network[1].call # network[2].call
      /\ network[1].url = network[2].url
      /\ calls[c].pc = "resolved" /\ calls[d].pc = "resolved"
      /\ calls[c].value = V_DataIdX /\ calls[d].value = V_DataIdX

\* the error a call rejects with, from its own arguments and from what its
\* own transport delivered
OwnError(call) ==
   IF call.failure # NoError THEN call.failure
   ELSE IF call.response = NoResponse
        THEN Thrown(call.build, call.config, call.apiKey, call.data, call.init)
   ELSE IF call.response.status \notin 200..299
        THEN Err("Error", ErrorMessage(call.build, call.config,
                                       RequestUrl(call.build, call.config, call.data),
                                       call.response))
   ELSE IF call.response.failure # NoError THEN call.response.failure
   ELSE Err("SyntaxError", << >>)

\* the request and the outcome of every call are those of its own arguments
\* and of its own response, and the transport of every call in flight can
\* answer it, with a response or a failure, whatever the other calls are doing
CallsStandAlone ==
   \A c \in Invoked :
      /\ "fetch" \in Range(calls[c].steps)
            => /\ Cardinality(RequestsOf(c)) = 1
               /\ \A i \in RequestsOf(c) :
                     /\ network[i].url
                           = RequestUrl(calls[c].build, calls[c].config, calls[c].data)
                     /\ network[i].options
                           = FetchOptions(calls[c].build, calls[c].config,
                                          calls[c].apiKey, calls[c].data, calls[c].init)
      /\ calls[c].pc = "resolved"
            => /\ ParsesAsJSON(calls[c].response)
               /\ calls[c].value = JSONParse(calls[c].response.body).v
               /\ calls[c].error = NoError
      /\ calls[c].pc = "rejected"
            => /\ calls[c].error = OwnError(calls[c])
               /\ calls[c].value = Undefined
      /\ calls[c].pc = "fetching"
            => /\ \A res \in PairResponses : ENABLED Respond(c, res)
               /\ \A failure \in PairFailures : ENABLED TransportFail(c, failure)

\* a step is a step of one call: it leaves the other calls as they are, and
\* it leaves the requests already issued as they are
StepOfOneCall ==
   \E c \in DOMAIN calls :
      /\ \A d \in DOMAIN calls \ { c } : calls'[d] = calls[d]
      /\ Len(network') >= Len(network)
      /\ SubSeq(network', 1, Len(network)) = network
      /\ \A i \in (Len(network) + 1)..Len(network') : network'[i].call = c

\* C17: calls in flight together are independent: each call's request and
\* outcome depend on its own arguments and response only, no step of a call
\* touches another call, and no call in flight waits for another.
C17_ConcurrentCallsIndependent ==
   [] CallsStandAlone /\ [][StepOfOneCall]_vars

\* the second request issued was answered and its call settled while the
\* first request, of a call to another endpoint, is still in flight
C17_Witness ==
   /\ Len(network) = 2
   /\ calls[network[1].call].pc = "fetching"
   /\ calls[network[2].call].pc = "resolved"
   /\ calls[network[1].call].config # calls[network[2].call].config

(***************************************************************************)
(* One call whose transport eventually answers                             *)
(***************************************************************************)
LiveCalls == { 1 }

LiveResponses ==
   { Response(200, T_OK, <<"n","u","l","l">>),
     Response(200, T_OK, T_Html),
     Response(204, <<"N","o"," ","C","o","n","t","e","n","t">>, << >>),
     Response(404, T_NotFound, T_Html) }

\* the transport of a call in flight answers it, with a response or a failure
Answer ==
   \E c \in At("fetching") :
      \/ \E res \in LiveResponses : Respond(c, res)
      \/ \E failure \in CallFailures : TransportFail(c, failure)

\* res.json() of a call settles
Decode == \E c \in At("parsing") : JsonDone(c)

NextLive ==
   \/ \E c \in At("idle"), build \in Builds :
         \E config \in { e \in Endpoints(build) : e.name \in CallEndpointNames } :
            \E apiKey \in CallApiKeys, data \in PairData(config) :
               Invoke(c, build, config, apiKey, data, EmptyObject)
   \/ Answer
   \/ Decode

\* the transport eventually responds or fails, and the decoding of a body
\* eventually finishes
SpecLive == Init /\ [][NextLive]_vars /\ WF_vars(Answer) /\ WF_vars(Decode)

\* a call leaves  await fetch(...)  only with a response or a failure of its
\* transport
LeavesFetchOnAnswerOnly ==
   \A c \in LiveCalls :
      (calls[c].pc = "fetching" /\ calls'[c].pc # "fetching")
         => \/ calls'[c].response # NoResponse /\ calls'[c].response \in LiveResponses
            \/ calls'[c].failure # NoError /\ calls'[c].failure \in CallFailures

\* C21: a call stays pending until its transport responds or fails (no
\* timeout, no cancellation of its own), and when the transport answers and
\* the decoding finishes the call settles.
C21_PendingUntilTransportAnswers ==
   /\ [][LeavesFetchOnAnswerOnly]_vars
   /\ \A c \in LiveCalls :
         (calls[c].pc \in { "fetching", "parsing" }) ~> Settled(c)

\* a call that waited for its transport and for the decoding has resolved
C21_Witness ==
   \E c \in LiveCalls :
      /\ calls[c].steps = << "fetch", "status", "json", "resolve" >>
      /\ calls[c].response.status = 200
      /\ calls[c].value = Null

\* the descriptor an endpoint function was declared with
Declared(build, name) == CHOOSE e \in Endpoints(build) : e.name = name

\* C22: whatever calls were made before and however they ended, a call
\* builds its request from the descriptor as it was declared: two calls with
\* the same arguments hand the same url and options to fetch.
C22_DescriptorUnchanged ==
   /\ \A i \in Requests :
         LET call == CallOf(i)
             config == Declared(call.build, call.config.name)
         IN  /\ network[i].options["method"] = config.method
             /\ network[i].url = RequestUrl(call.build, config, call.data)
   /\ \A i, j \in Requests :
         SameArguments(network[i].call, network[j].call)
            => /\ network[i].url = network[j].url
               /\ network[i].options = network[j].options

\* a POST call was rejected for its status, and the same call made again
\* issued the same request
C22_Witness ==
   /\ Len(network) = 2
   /\ SameArguments(network[1].call, network[2].call)
   /\ calls[network[1].call].config.method = POST
   /\ calls[network[1].call].pc = "rejected"
   /\ calls[network[1].call].response.status = 404
   /\ calls[network[2].call].pc = "fetching"
   /\ network[1].url = network[2].url
   /\ network[1].options = network[2].options

(***************************************************************************)
(* Calls in flight with different credentials                              *)
(***************************************************************************)
CredInits == { EmptyObject, "headers" :> ("X-Trace" :> <<"1">>) }

NextCred ==
   \/ \E c \in At("idle"), apiKey \in CallApiKeys, init \in CredInits :
         \E config \in { e \in Endpoints("ts") : e.name = "retrieveOpportunity" } :
            \E data \in PairData(config) :
               Invoke(c, "ts", config, apiKey, data, init)
   \/ \E c \in At("fetching"), res \in PairResponses : Respond(c, res)
   \/ \E c \in At("fetching"), failure \in PairFailures : TransportFail(c, failure)
   \/ \E c \in At("parsing") : JsonDone(c)

SpecCred == InitPair /\ [][NextCred]_vars

K_Basic == <<"B","a","s","i","c"," ">>

\* C23: the Authorization header of a request, read back, is the credential
\* of the call that issued the request, whatever credentials the other calls
\* were given; a call made without headers of its own always sends it.
C23_NoAmbientCredential ==
   \A i \in Requests :
      LET h == SentHeaders(i)
      IN  /\ "headers" \notin DOMAIN CallOf(i).init => "Authorization" \in DOMAIN h
          /\ "Authorization" \in DOMAIN h
                => /\ StartsWith(h["Authorization"], K_Basic)
                   /\ atob(Drop(h["Authorization"], Len(K_Basic)))
                         = CallOf(i).apiKey \o << ":" >>
                   /\ \A d \in Invoked :
                         calls[d].apiKey # CallOf(i).apiKey
                            => atob(Drop(h["Authorization"], Len(K_Basic)))
                                  # calls[d].apiKey \o << ":" >>

\* two requests are out, each signed with the credential of its own call,
\* and the two credentials differ
C23_Witness ==
   /\ Len(network) = 2
   /\ CallOf(1).apiKey # CallOf(2).apiKey
   /\ "Authorization" \in DOMAIN SentHeaders(1)
   /\ "Authorization" \in DOMAIN SentHeaders(2)
   /\ SentHeaders(1)["Authorization"] # SentHeaders(2)["Authorization"]
   /\ atob(Drop(SentHeaders(2)["Authorization"], Len(K_Basic)))
         = CallOf(2).apiKey \o << ":" >>

(***************************************************************************)
(* Path interpolation: params that do not match the placeholders           *)
(***************************************************************************)
MaxParams == 2

K_opportunity == <<"o","p","p","o","r","t","u","n","i","t","y">>
K_application == <<"a","p","p","l","i","c","a","t","i","o","n">>
K_id          == <<"i","d">>
K_opp         == <<"o","p","p">>
K_extra       == <<"e","x","t","r","a">>

TemplateKeys == { K_opportunity, K_application, K_id, K_opp, K_extra }

TemplateValues == { <<"x","1">>, <<"a","/","b">> }

\* a descriptor whose path names the same placeholder twice
TwiceConfig ==
   Config("twice", GET,
          <<"/","i","t","e","m","s","/",":","i","d","/","c","o","p","i","e","s","/",":","i","d">>)

\* the descriptors createEndpoint is given: two declared ones and TwiceConfig
TemplateConfigs(build) ==
   { e \in Endpoints(build) : e.name \in { "retrieveApplication", "retrieveOpportunity" } }
   \cup { TwiceConfig }

\* params objects of up to MaxParams properties, in every property order
TemplateParams ==
   { Obj([i \in 1..n |-> << ks[i], Str(vs[i]) >>]) :
        <<n, ks, vs>> \in
           { t \in UNION { { <<m, k, v>> : k \in [1..m -> TemplateKeys],
                                           v \in [1..m -> TemplateValues] } :
                           m \in 0..MaxParams } :
                \A i, j \in 1..t[1] : i # j => t[2][i] # t[2][j] } }

NextTemplate ==
   \E c \in At("idle"), build \in Builds :
      \E config \in TemplateConfigs(build), ps \in TemplateParams :
         Invoke(c, build, config, K_key,
                ("params" :> ps) @@ ("query" :> Obj(<< >>)), EmptyObject)

SpecTemplate == Init /\ [][NextTemplate]_vars

\* the names of the properties of an object
Keys(o) == { Entries(o)[e][1] : e \in 1..Len(Entries(o)) }

PlaceholderNames(path) == { Placeholders(path)[n] : n \in 1..Len(Placeholders(path)) }

\* C24: a param replaces the first occurrence of its token only: the url of
\* a call with one param is the template up to the first ":<name>", the
\* encoded value, and the rest of the template as it is, a second ":<name>"
\* included.
C24_FirstOccurrenceOnly ==
   \A i \in Requests :
      LET path    == CallOf(i).config.path
          entries == Entries(CallOf(i).data["params"])
      IN  Len(entries) = 1 =>
             LET token == << ":" >> \o entries[1][1]
                 p     == IndexOf(path, token)
             IN  UrlPath(network[i].url)
                    = IF p = 0 THEN path
                      ELSE SubSeq(path, 1, p - 1)
                              \o encodeURIComponent(String(entries[1][2]))
                              \o SubSeq(path, p + Len(token), Len(path))

\* the template /items/:id/copies/:id with params { id: 'x1' } gave the url
\* path /items/x1/copies/:id
C24_Witness ==
   \E i \in Requests :
      /\ CallOf(i).config = TwiceConfig
      /\ CallOf(i).data["params"] = Obj(<< << K_id, Str(<<"x","1">>) >> >>)
      /\ UrlPath(network[i].url)
            = <<"/","i","t","e","m","s","/","x","1","/","c","o","p","i","e","s","/",":","i","d">>

\* the placeholders of its descriptor a call gave no param for
Omitted(call) == PlaceholderNames(call.config.path) \ Keys(call.data["params"])

\* C25: a call whose params (all of them names of placeholders, and with a
\* query) omit a placeholder of the descriptor is not rejected: it issues
\* its one request, and the url holds the token of every omitted placeholder.
C25_OmittedPlaceholderStays ==
   \A c \in Invoked :
      (/\ Omitted(calls[c]) # { }
       /\ Keys(calls[c].data["params"]) \subseteq PlaceholderNames(calls[c].config.path))
         => /\ calls[c].pc = "fetching"
            /\ Cardinality(RequestsOf(c)) = 1
            /\ \A i \in RequestsOf(c), name \in Omitted(calls[c]) :
                  Contains(UrlPath(network[i].url), << "/", ":" >> \o name)

\* retrieveApplication called with params { opportunity: 'x1' } issued a
\* request to /opportunities/x1/applications/:application
C25_Witness ==
   \E i \in Requests :
      /\ CallOf(i).config.name = "retrieveApplication"
      /\ CallOf(i).data["params"] = Obj(<< << K_opportunity, Str(<<"x","1">>) >> >>)
      /\ Omitted(CallOf(i)) = { K_application }
      /\ UrlPath(network[i].url)
            = <<"/","o","p","p","o","r","t","u","n","i","t","i","e","s","/","x","1","/">>
                 \o <<"a","p","p","l","i","c","a","t","i","o","n","s","/",":">>
                 \o K_application

\* C26: a param whose name is not a placeholder of the descriptor does not
\* make the call fail and leaves the url as it is without that param.
C26_ExtraParamsUnused ==
   \A c \in Invoked :
      LET entries == Entries(calls[c].data["params"])
          names   == PlaceholderNames(calls[c].config.path)
          used    == SelectSeq(entries, LAMBDA e : e[1] \in names)
      IN  used # entries
             => /\ calls[c].pc # "rejected"
                /\ \A i \in RequestsOf(c) :
                      UrlPath(network[i].url) = Interpolate(calls[c].config.path, used)

\* the entries of an object taken in another order
Reordered(entries, perm) == [k \in 1..Len(entries) |-> entries[perm[k]]]

\* C27: for every declared descriptor and params over its placeholders, the
\* url path of the request is the path interpolated in any order of the
\* (name, value) pairs.
C27_SubstitutionOrderIrrelevant ==
   \A i \in Requests :
      HasExactParams(CallOf(i)) =>
         LET path    == CallOf(i).config.path
             entries == Entries(CallOf(i).data["params"])
         IN  /\ CallOf(i).config \in Endpoints(CallOf(i).build)
             /\ \A perm \in Permutations(1..Len(entries)) :
                   Interpolate(path, Reordered(entries, perm)) = UrlPath(network[i].url)

\* a request of a two-placeholder descriptor whose params are given in the
\* reverse of the template's order, the first value being ":application"
C27_Witness ==
   \E i \in Requests :
      LET names   == Placeholders(CallOf(i).config.path)
          entries == Entries(CallOf(i).data["params"])
      IN  /\ Len(names) = 2 /\ Len(entries) = 2
          /\ entries[1][1] = names[2] /\ entries[2][1] = names[1]
          /\ entries[2][2] = Str(<< ":" >> \o K_application)
          /\ names[2] = K_application
          /\ Interpolate(CallOf(i).config.path, Reverse(entries)) = UrlPath(network[i].url)

\* the text of a url after ROOT
AfterRoot(url) == Drop(url, Len(ROOT))

\* C28: whatever characters the values of the params hold, the url of the
\* request starts with ROOT, has as many "/"-separated segments after it as
\* the template, has no "?" and no "#" (the query being empty), and no
\* encoded value holds a ":" that a later substitution could match.
C28_ValueKeepsUrlStructure ==
   \A i \in Requests :
      HasExactParams(CallOf(i)) =>
         LET path    == CallOf(i).config.path
             entries == Entries(CallOf(i).data["params"])
             rest    == AfterRoot(network[i].url)
         IN  /\ StartsWith(network[i].url, ROOT)
             /\ Len(Split(rest, "/")) = Len(Split(path, "/"))
             /\ ~Contains(rest, << "?" >>)
             /\ ~Contains(rest, << "#" >>)
             /\ ~Contains(rest, << ":" >>)
             /\ \A e \in 1..Len(entries) :
                   \A c \in { "/", "?", "#", "&", ":", "$" } :
                      ~Contains(encodeURIComponent(String(entries[e][2])), << c >>)

\* a request whose params hold the values "a/b" and "?x=1#f"
C28_Witness ==
   \E i \in Requests :
      LET entries == Entries(CallOf(i).data["params"])
      IN  /\ Len(entries) = 2
          /\ entries[1][2] = Str(<<"a","/","b">>)
          /\ entries[2][2] = Str(<<"?","x","=","1","#","f">>)
          /\ Len(Split(AfterRoot(network[i].url), "/"))
                = Len(Split(CallOf(i).config.path, "/"))

\* C29: a request of retrieveInterview goes to the url updateInterview and
\* deleteInterview address for the same params, the three descriptors
\* differing in method only (GET, PUT, DELETE).
C29_InterviewEndpointsShareUrl ==
   \A i \in Requests :
      CallOf(i).config.name = "retrieveInterview" =>
         LET build  == CallOf(i).build
             update == Declared(build, "updateInterview")
             delete == Declared(build, "deleteInterview")
         IN  /\ network[i].url = RequestUrl(build, update, CallOf(i).data)
             /\ network[i].url = RequestUrl(build, delete, CallOf(i).data)
             /\ network[i].options["method"] = GET
             /\ update.method = PUT
             /\ delete.method = DELETE

\* the body a request is sent with, Undefined when it carries none
SentBody(options) == IF CarriesBody(options) THEN options["body"] ELSE Undefined

\* C30: for every call, each build that declares the endpoint would throw
\* the same exception or issue the same request (method, url, headers,
\* body), and would reject a status outside 200..299 with the same message.
C30_BuildsAgree ==
   \A c \in Invoked, build \in Builds :
      (\E e \in Endpoints(build) : e.name = calls[c].config.name) =>
         LET call    == calls[c]
             config  == Declared(build, call.config.name)
             options == FetchOptions(build, config, call.apiKey, call.data, call.init)
         IN  /\ Thrown(build, config, call.apiKey, call.data, call.init)
                   = Thrown(call.build, call.config, call.apiKey, call.data, call.init)
             /\ \A i \in RequestsOf(c) :
                   /\ network[i].url = RequestUrl(build, config, call.data)
                   /\ network[i].options["method"] = options["method"]
                   /\ network[i].options["headers"] = options["headers"]
                   /\ SentBody(network[i].options) = SentBody(options)
             /\ (Delivered(c) /\ call.response.status \notin 200..299)
                   => call.error.message
                         = ErrorMessage(build, config,
                                        RequestUrl(build, config, call.data),
                                        call.response)
====
